---- MODULE Spec2Model ----
(***************************************************************************)
(* Verification model of expo-uae-pass: the UAE Pass authentication        *)
(* service (callback parser, browser strategy, native-app strategy and    *)
(* the authenticate() orchestrator).                                       *)
(*                                                                         *)
(* JavaScript runs one task to completion at a time, so every action below *)
(* is one task: the synchronous run of a function up to its next await of  *)
(* a platform primitive, the continuation after such an await, a deep-link *)
(* event dispatched to the registered listeners, or a timer callback.      *)
(* Awaiting an already settled promise continues in a microtask, before    *)
(* any other task, and is therefore part of the task that reaches it.      *)
(***************************************************************************)
EXTENDS Integers, Sequences, FiniteSets, TLC

VARIABLES
    globalConfig,     \* uaePassConfig.ts: let globalConfig (NoConfig = null)
    globalAppSchemes, \* uaePassConfig.ts: let globalAppSchemes
    platformEnv,    \* Platform.OS and the methods NativeModules.UAEPassModule offers
    entry,          \* per call: the exported function that was called
    pc,             \* per call: where the async function is suspended
    session,        \* per call: state, codeVerifier, acrValue, authUrl, appInstalled
    waiters,        \* per call and strategy: listener subscription, timer, authCodePromise
    returned,       \* per call: the AuthResult the caller received (NoResult while pending)
    thrown,         \* per call: the error the caller's promise rejected with (NULL if none)
    installed,      \* per call: the boolean its isUAEPassAppInstalled() returned
    detectOutcome,  \* per call: how its detection primitive settled ("none" if not called)
    prepared,       \* per call: the parameters prepareUAEPassAuth returned to its caller
    trace,          \* per call: the registrations and platform calls made, in order
    isLoading,      \* useUAEPassAuth: the isLoading state
    authResult,     \* useUAEPassAuth: the authResult state (NoResult = null)
    callbacks,      \* useUAEPassAuth: the option callbacks invoked, in order
    pUrl,           \* callback parser applied on its own: the url argument
    pExpected,      \* callback parser applied on its own: the expectedState argument
    pResult,        \* callback parser applied on its own: the value returned
    genI,           \* generateCodeVerifier: the loop variable i
    genVerifier,    \* generateCodeVerifier: the verifier local
    genReturned,    \* generateCodeVerifier: the value returned (NoVerifier before)
    bridgeProps,    \* UAEPassWebViewAuth: the props authUrl, redirectUri, expectedState
    savedUrls,      \* UAEPassWebViewAuth: the savedUrls state (NoSavedUrls = null)
    waitingForCallback, \* UAEPassWebViewAuth: the waitingForCallback state
    currentUrl,     \* UAEPassWebViewAuth: the currentUrl state, the WebView's source
    initialUrl,     \* what Linking.getInitialURL() resolves to (NoUrl = null)
    initialUrlThen, \* the pending .then callbacks of getInitialURL(), oldest first
    opened,         \* the URLs handed to Linking.openURL by the bridge, in order
    bridgeCallbacks, \* the onSuccess / onError props invoked by the bridge, in order
    lastEvent       \* the handler the bridge ran last, what it returned, the events so far

configVars == <<globalConfig, globalAppSchemes>>
callVars ==
    <<entry, pc, session, waiters, returned, thrown, installed, detectOutcome, prepared,
      trace>>
hookVars == <<isLoading, authResult, callbacks>>
flowVars == <<configVars, platformEnv, callVars, hookVars>>
parserVars == <<pUrl, pExpected, pResult>>
generatorVars == <<genI, genVerifier, genReturned>>
bridgeVars ==
    <<bridgeProps, savedUrls, waitingForCallback, currentUrl, initialUrl, initialUrlThen,
      opened, bridgeCallbacks, lastEvent>>

\* the variables of the parts checked on their own
partVars == <<parserVars, generatorVars, bridgeVars>>

vars == <<flowVars, partVars>>

-----------------------------------------------------------------------------
(* Bounds *)

\* number of query parameters of a callback URL given to the parser
MaxParams == 3
\* number of authenticate() calls that may be in flight together
MaxAttempts == 2

-----------------------------------------------------------------------------
(* Values *)

\* JavaScript null / undefined of a string-valued field
NULL == "<null>"

ParamKeys == {"code", "state", "error", "error_description"}
\* "" is an empty parameter value (`code=`)
ParamValues == {"", "s1", "s2"}
StateTokens == {"s1", "s2"}
Verifiers == {"v1", "v2"}

\* schemes of inbound URLs: the host app's scheme, https, and a scheme the
\* parser's /^[a-z]+:\/\// does not match (it has a digit and a dot)
Schemes == {"yourapp", "https", "com.app2"}

RedirectScheme == "yourapp"
RedirectPath == "auth/uaepass"

\* A URL string, structured: scheme "://" path "?" k=v "&" k=v ...
\* wellFormed = FALSE stands for a string `new URL` rejects.
Url(scheme, path, query) ==
    [wellFormed |-> TRUE, scheme |-> scheme, path |-> path, query |-> query]

MalformedUrl ==
    [wellFormed |-> FALSE, scheme |-> "", path |-> "", query |-> <<>>]

\* an absent (undefined) URL-valued field
NoUrl == [wellFormed |-> FALSE, scheme |-> "<none>", path |-> "", query |-> <<>>]

SeqsUpTo(S, n) == UNION {[1..k -> S] : k \in 0..n}

Param(k, v) == [key |-> k, value |-> v]

Params == {Param(k, v) : k \in ParamKeys, v \in ParamValues}

-----------------------------------------------------------------------------
(* Callback parser *)

\* UAEPassAuthResult.details (any): absent, the error that was caught
\* (cause), or the hook's hand-over to the WebView
NoDetails ==
    [cause |-> NULL, useWebView |-> FALSE, authUrl |-> NoUrl,
     redirectUri |-> NULL, expectedState |-> NULL]

Success(code, state) ==
    [success |-> TRUE, authorizationCode |-> code, state |-> state,
     codeVerifier |-> NULL, error |-> NULL, details |-> NoDetails]

Failure(message) ==
    [success |-> FALSE, authorizationCode |-> NULL, state |-> NULL,
     codeVerifier |-> NULL, error |-> message, details |-> NoDetails]

FailureWithDetails(message, cause) ==
    [success |-> FALSE, authorizationCode |-> NULL, state |-> NULL,
     codeVerifier |-> NULL, error |-> message,
     details |-> [NoDetails EXCEPT !.cause = cause]]

NoResult ==
    [success |-> FALSE, authorizationCode |-> NULL, state |-> NULL,
     codeVerifier |-> NULL, error |-> NULL,
     details |-> [NoDetails EXCEPT !.cause = "pending"]]

MsgInvalidState == "Invalid state parameter"
MsgNoCode == "No authorization code received"
MsgParseFailed == "Failed to parse callback URL"

\* the scheme matches ^[a-z]+ followed by ://
LowercaseScheme(scheme) == scheme \in {"yourapp", "https", "uaepass", "uaepassstg"}

\* url.replace(/^[a-z]+:\/\//, 'https://')
NormalizeScheme(url) ==
    IF url.wellFormed /\ LowercaseScheme(url.scheme)
    THEN [url EXCEPT !.scheme = "https"]
    ELSE url

\* URLSearchParams.get: the value of the first parameter named key, or null
RECURSIVE SearchParamsGet(_, _)
SearchParamsGet(query, key) ==
    IF query = <<>> THEN NULL
    ELSE IF Head(query).key = key THEN Head(query).value
    ELSE SearchParamsGet(Tail(query), key)

\* JavaScript truthiness of string | null
Truthy(v) == v # NULL /\ v # ""

parseCallbackURLNoStateCheck(url, expectedState) ==
    LET normalizedUrl == NormalizeScheme(url) IN
    IF ~normalizedUrl.wellFormed
    THEN FailureWithDetails(MsgParseFailed, "TypeError")
    ELSE
      LET code == SearchParamsGet(normalizedUrl.query, "code")
          state == SearchParamsGet(normalizedUrl.query, "state")
          error == SearchParamsGet(normalizedUrl.query, "error")
          errorDescription == SearchParamsGet(normalizedUrl.query, "error_description")
      IN IF Truthy(error)
         THEN Failure(IF Truthy(errorDescription) THEN errorDescription ELSE error)
         ELSE IF ~Truthy(code) THEN Failure(MsgNoCode)
         ELSE Success(code, state)

parseCallbackURLStateFirst(url, expectedState) ==
    LET normalizedUrl == NormalizeScheme(url) IN
    IF ~normalizedUrl.wellFormed
    THEN FailureWithDetails(MsgParseFailed, "TypeError")
    ELSE
      LET code == SearchParamsGet(normalizedUrl.query, "code")
          state == SearchParamsGet(normalizedUrl.query, "state")
          error == SearchParamsGet(normalizedUrl.query, "error")
          errorDescription == SearchParamsGet(normalizedUrl.query, "error_description")
      IN IF state # expectedState THEN Failure(MsgInvalidState)
         ELSE IF Truthy(error)
         THEN Failure(IF Truthy(errorDescription) THEN errorDescription ELSE error)
         ELSE IF ~Truthy(code) THEN Failure(MsgNoCode)
         ELSE Success(code, state)

parseCallbackURLSwapped(url, expectedState) ==
    LET normalizedUrl == NormalizeScheme(url) IN
    IF ~normalizedUrl.wellFormed
    THEN FailureWithDetails(MsgParseFailed, "TypeError")
    ELSE
      LET code == SearchParamsGet(normalizedUrl.query, "code")
          state == SearchParamsGet(normalizedUrl.query, "state")
          error == SearchParamsGet(normalizedUrl.query, "error")
          errorDescription == SearchParamsGet(normalizedUrl.query, "error_description")
      IN IF Truthy(error)
         THEN Failure(IF Truthy(errorDescription) THEN errorDescription ELSE error)
         ELSE IF state # expectedState THEN Failure(MsgInvalidState)
         ELSE IF ~Truthy(code) THEN Failure(MsgNoCode)
         ELSE Success(state, code)

parseCallbackURLCodeOptional(url, expectedState) ==
    LET normalizedUrl == NormalizeScheme(url) IN
    IF ~normalizedUrl.wellFormed
    THEN FailureWithDetails(MsgParseFailed, "TypeError")
    ELSE
      LET code == SearchParamsGet(normalizedUrl.query, "code")
          state == SearchParamsGet(normalizedUrl.query, "state")
          error == SearchParamsGet(normalizedUrl.query, "error")
          errorDescription == SearchParamsGet(normalizedUrl.query, "error_description")
      IN IF Truthy(error)
         THEN Failure(IF Truthy(errorDescription) THEN errorDescription ELSE error)
         ELSE IF state # expectedState THEN Failure(MsgInvalidState)
         ELSE IF code = NULL THEN Failure(MsgNoCode)
         ELSE Success(code, state)

parseCallbackURL(url, expectedState) ==
    LET normalizedUrl == NormalizeScheme(url) IN
    IF ~normalizedUrl.wellFormed
    THEN FailureWithDetails(MsgParseFailed, "TypeError")
    ELSE
      LET code == SearchParamsGet(normalizedUrl.query, "code")
          state == SearchParamsGet(normalizedUrl.query, "state")
          error == SearchParamsGet(normalizedUrl.query, "error")
          errorDescription == SearchParamsGet(normalizedUrl.query, "error_description")
      IN IF Truthy(error)
         THEN Failure(IF Truthy(errorDescription) THEN errorDescription ELSE error)
         ELSE IF state # expectedState THEN Failure(MsgInvalidState)
         ELSE IF ~Truthy(code) THEN Failure(MsgNoCode)
         ELSE Success(code, state)

-----------------------------------------------------------------------------
(* Callback parser applied on its own *)

ParserUrls ==
    {MalformedUrl} \cup
    {Url(sc, RedirectPath, q) : sc \in Schemes, q \in SeqsUpTo(Params, MaxParams)}

ParserIdle ==
    /\ pUrl = MalformedUrl
    /\ pExpected = NULL
    /\ pResult = NoResult

ParserInit ==
    /\ pUrl \in ParserUrls
    /\ pExpected \in StateTokens
    /\ pResult = NoResult

\* one call parseCallbackURL(pUrl, pExpected)
ParseCall ==
    /\ pResult = NoResult
    /\ pResult' = parseCallbackURL(pUrl, pExpected)
    /\ UNCHANGED <<pUrl, pExpected, flowVars, generatorVars, bridgeVars>>

-----------------------------------------------------------------------------
(* PKCE code verifier (generateCodeVerifier) *)

\* Math.random() is a multiple of 1/RandomResolution in [0, 1)
RandomResolution == 64

\* the number of loop iterations: `i < 128`
VerifierLength == 128

possibleBase64 ==
    <<
      "A", "B", "C", "D", "E", "F", "G", "H", "I", "J", "K", "L", "M", "N",
      "O", "P", "Q", "R", "S", "T", "U", "V", "W", "X", "Y", "Z", "a", "b",
      "c", "d", "e", "f", "g", "h", "i", "j", "k", "l", "m", "n", "o", "p",
      "q", "r", "s", "t", "u", "v", "y", "z", "0", "1", "2", "3", "4", "5",
      "6", "7", "8", "9", "-", ".", "+", "/"
    >>

\* const possible, character by character
possible ==
    <<
      "A", "B", "C", "D", "E", "F", "G", "H", "I", "J", "K", "L", "M", "N",
      "O", "P", "Q", "R", "S", "T", "U", "V", "W", "X", "Y", "Z", "a", "b",
      "c", "d", "e", "f", "g", "h", "i", "j", "k", "l", "m", "n", "o", "p",
      "q", "r", "s", "t", "u", "v", "y", "z", "0", "1", "2", "3", "4", "5",
      "6", "7", "8", "9", "-", ".", "_", "~"
    >>

\* str.charAt(index): '' when index is outside the string
CharAt(str, index) ==
    IF index \in 0..(Len(str) - 1) THEN str[index + 1] ELSE ""

Letters ==
    {
     "A", "B", "C", "D", "E", "F", "G", "H", "I", "J", "K", "L", "M", "N",
     "O", "P", "Q", "R", "S", "T", "U", "V", "W", "X", "Y", "Z", "a", "b",
     "c", "d", "e", "f", "g", "h", "i", "j", "k", "l", "m", "n", "o", "p",
     "q", "r", "s", "t", "u", "v", "w", "x", "y", "z"
    }

Digits == {"0","1","2","3","4","5","6","7","8","9"}

\* the kind of a character: a letter, a digit, or the character itself
CharKind(c) ==
    IF c \in Letters THEN "ALPHA" ELSE IF c \in Digits THEN "DIGIT" ELSE c

\* a verifier string, kept as its length and the kinds of character in it
EmptyVerifier == [length |-> 0, kinds |-> {}]

NoVerifier == [length |-> -1, kinds |-> {}]

\* verifier += c
AppendChar(verifier, c) ==
    IF c = "" THEN verifier
    ELSE [length |-> verifier.length + 1, kinds |-> verifier.kinds \cup {CharKind(c)}]

\* let verifier = '' and the loop's i = 0
GeneratorIdle ==
    /\ genI = 0
    /\ genVerifier = EmptyVerifier
    /\ genReturned = NoVerifier

\* one iteration of the loop; r / RandomResolution is what Math.random() returns
GenerateStep(r) ==
    /\ genReturned = NoVerifier
    /\ genI < VerifierLength
    /\ genVerifier' = AppendChar(genVerifier,
                                 CharAt(possible,
                                        (r * Len(possible)) \div RandomResolution))
    /\ genI' = genI + 1
    /\ UNCHANGED <<genReturned, flowVars, parserVars, bridgeVars>>

\* the loop ends and the function returns verifier
GenerateReturn ==
    /\ genReturned = NoVerifier
    /\ ~(genI < VerifierLength)
    /\ genReturned' = genVerifier
    /\ UNCHANGED <<genI, genVerifier, flowVars, parserVars, bridgeVars>>

-----------------------------------------------------------------------------
(* Configuration (uaePassConfig.ts) *)

Environments == {"staging", "production"}

NoConfig ==
    [configured |-> FALSE, environment |-> NULL, clientId |-> NULL,
     redirectUri |-> NULL, authorizationEndpoint |-> NULL, scopes |-> NULL]

DEFAULT_SCOPES == "urn:uae:digitalid:profile:general"

\* the settings the app passes for an environment; configureUAEPass stores
\* them with `scopes: config.scopes || DEFAULT_SCOPES`
Config(env) ==
    [configured |-> TRUE, environment |-> env, clientId |-> "your_client_id",
     redirectUri |-> "yourapp://auth/uaepass",
     authorizationEndpoint |-> IF env = "production"
                               THEN "id.uaepass.ae/idshub/authorize"
                               ELSE "stg-id.uaepass.ae/idshub/authorize",
     scopes |-> DEFAULT_SCOPES]

DEFAULT_APP_SCHEMES ==
    [staging |-> [ios |-> "uaepassstg://", android |-> "ae.uaepass.mainapp.stg"],
     production |-> [ios |-> "uaepass://", android |-> "ae.uaepass.mainapp"]]

\* the optional second argument of configureUAEPass: absent, or a partial
\* table (NULL is a field the caller left out)
NoOverride == [given |-> FALSE,
               staging |-> [ios |-> NULL, android |-> NULL],
               production |-> [ios |-> NULL, android |-> NULL]]

SchemeOverrides ==
    {NoOverride,
     [given |-> TRUE,
      staging |-> [ios |-> NULL, android |-> "com.custom.stg"],
      production |-> [ios |-> NULL, android |-> NULL]]}

\* { ...DEFAULT_APP_SCHEMES[env], ...appSchemes[env] }
MergeSchemes(defaults, given) ==
    [k \in {"ios", "android"} |-> IF given[k] # NULL THEN given[k] ELSE defaults[k]]

MsgNotConfigured ==
    "UAE Pass not configured. Please call configureUAEPass() first in your app initialization."

ACR_LOW == "urn:safelayer:tws:policies:authentication:level:low"
ACR_MOBILE_ON_DEVICE == "urn:digitalid:authentication:flow:mobileondevice"

\* buildAuthorizationURL(params): `${config.authorizationEndpoint}?${queryParams}`,
\* the endpoint being that of getUAEPassConfig() at the time of the call
buildAuthorizationURL(endpoint, clientId, redirectUri, scopes, acrValue, state) ==
    Url("https", endpoint,
        <<Param("response_type", "code"),
          Param("client_id", clientId),
          Param("redirect_uri", redirectUri),
          Param("scope", scopes),
          Param("state", state),
          Param("acr_values", acrValue),
          Param("ui_locales", "en")>>)

-----------------------------------------------------------------------------
(* Platform *)

\* Platform.OS, whether NativeModules.UAEPassModule exists and which of its
\* optional launch methods it offers
PlatformEnvs ==
    {[os |-> "ios", module |-> FALSE, hasIntent |-> FALSE, hasLaunch |-> FALSE],
     [os |-> "android", module |-> FALSE, hasIntent |-> FALSE, hasLaunch |-> FALSE]}
    \cup
    {[os |-> "android", module |-> TRUE, hasIntent |-> i, hasLaunch |-> l] :
        i \in BOOLEAN, l \in BOOLEAN}

\* inbound URLs of the flow: the IdP's redirect for either state token, the
\* failure redirect, and a deep link that is not a callback
CallbackUrl(s) ==
    Url(RedirectScheme, RedirectPath, <<Param("code", "c1"), Param("state", s)>>)

ErrorUrl == Url(RedirectScheme, RedirectPath, <<Param("error", "cancelled")>>)

UnrelatedUrl == Url(RedirectScheme, "settings/profile", <<>>)

FlowUrls == {CallbackUrl(s) : s \in StateTokens} \cup {ErrorUrl, UnrelatedUrl}

\* url.includes(config.redirectUri)
IncludesRedirectUri(url) ==
    url.wellFormed /\ url.scheme = RedirectScheme /\ url.path = RedirectPath

\* url.includes('code=')
IncludesCodeMarker(url) ==
    url.wellFormed /\ \E i \in 1..Len(url.query) : url.query[i].key = "code"

-----------------------------------------------------------------------------
(* Attempts, listeners, timers, pending results *)

\* the calls of the behaviour: the domain the specification gives to the
\* per-call variables
Attempts == DOMAIN pc

Strategies == {"app", "browser"}

\* the exported functions a call can be of
EntryPoints ==
    {"authenticateWithUAEPass", "useUAEPassAuth.authenticate", "prepareUAEPassAuth",
     "isUAEPassAppInstalled", "authenticateWithUAEPassBrowser"}

NoEvent == NoUrl

\* config: the `config` local of the call
NoSession ==
    [config |-> NoConfig, state |-> NULL, codeVerifier |-> NULL, acrValue |-> NULL,
     authUrl |-> NoUrl, appInstalled |-> FALSE]

\* UAEPassWebViewAuthParams, before prepareUAEPassAuth returned
NoParams ==
    [authUrl |-> NoUrl, redirectUri |-> NULL, state |-> NULL, codeVerifier |-> NULL,
     acrValue |-> NULL, useWebView |-> FALSE]

\* sub: the Linking subscription; timer: the setTimeout; promise: authCodePromise;
\* ev: the last event url the listener callback went on to parse
NoWaiter == [sub |-> "none", timer |-> "none", promise |-> NoResult, ev |-> NoEvent]

ArmedWaiter == [sub |-> "registered", timer |-> "armed", promise |-> NoResult, ev |-> NoEvent]

MsgTimeoutBrowser == "Authentication timeout"
MsgTimeoutApp == "Authentication timeout - UAE Pass app did not respond"
MsgUserCancelled == "User cancelled authentication"
MsgSessionFailed == "openAuthSessionAsync failed"

TimeoutMessage(strategy) ==
    IF strategy = "app" THEN MsgTimeoutApp ELSE MsgTimeoutBrowser

ResolveOverwrite(promise, value) == value

\* resolve(value) of a promise: settles it once, later calls change nothing
Resolve(promise, value) == IF promise = NoResult THEN value ELSE promise

WithVerifierDropped(result, codeVerifier) == result

\* if (result.success) result.codeVerifier = codeVerifier
WithVerifier(result, codeVerifier) ==
    IF result.success THEN [result EXCEPT !.codeVerifier = codeVerifier] ELSE result

\* subscription.remove()
Remove(sub) == IF sub = "registered" THEN "removed" ELSE sub

-----------------------------------------------------------------------------
(* One call's synchronous runs.  st is the call's own state: its entry     *)
(* point, pc, session (sess), two waiters (w), trace, what its caller got  *)
(* (ret, thrown, installed, prepared), how its detection primitive settled *)
(* (detected) and the hook's state (h).                                    *)

HookState ==
    [isLoading |-> isLoading, authResult |-> authResult, callbacks |-> callbacks]

AttemptState(a) ==
    [id |-> a, entry |-> entry[a], pc |-> pc[a], sess |-> session[a],
     w |-> waiters[a], trace |-> trace[a], ret |-> returned[a],
     thrown |-> thrown[a], installed |-> installed[a],
     detected |-> detectOutcome[a], prepared |-> prepared[a], h |-> HookState]

\* useUAEPassAuth.authenticate: setAuthResult(result); setIsLoading(false);
\* the option callback; return result
HookFinish(st, result, callback) ==
    [st EXCEPT !.pc = "done", !.ret = result,
               !.h = [isLoading |-> FALSE, authResult |-> result,
                      callbacks |-> Append(@.callbacks,
                                           [call |-> st.id, name |-> callback])]]

HookCallbackCancelAsError(result) ==
    IF result.success THEN "onSuccess" ELSE "onError"

\* useUAEPassAuth.authenticate: the callback chosen for the browser
\* strategy's result
HookCallback(result) ==
    IF result.success THEN "onSuccess"
    ELSE IF result.error = MsgUserCancelled THEN "onCancel"
    ELSE "onError"

\* `return result` of a strategy, seen from the call's entry point
Return(st, result) ==
    IF st.entry = "useUAEPassAuth.authenticate"
    THEN HookFinish(st, result, HookCallback(result))
    ELSE [st EXCEPT !.pc = "done", !.ret = result]

ThrowWithoutCallback(st, message) ==
    IF st.entry = "authenticateWithUAEPass"
    THEN [st EXCEPT !.pc = "done", !.ret = FailureWithDetails(message, "Error")]
    ELSE IF st.entry = "useUAEPassAuth.authenticate"
    THEN [st EXCEPT !.pc = "done", !.ret = Failure(message),
                    !.h.isLoading = FALSE, !.h.authResult = Failure(message)]
    ELSE [st EXCEPT !.pc = "rejected", !.thrown = message]

\* an error thrown inside the call: caught by authenticateWithUAEPass and by
\* the hook's authenticate, which turn it into a failure; the other exported
\* functions have no try/catch around it and their promise rejects
Throw(st, message) ==
    IF st.entry = "authenticateWithUAEPass"
    THEN [st EXCEPT !.pc = "done", !.ret = FailureWithDetails(message, "Error")]
    ELSE IF st.entry = "useUAEPassAuth.authenticate"
    THEN HookFinish(st, Failure(message), "onError")
    ELSE [st EXCEPT !.pc = "rejected", !.thrown = message]

AwaitAuthCodePromiseUnsettledOnly(st, strategy) ==
    [st EXCEPT !.pc = IF strategy = "app" THEN "app_await" ELSE "br_await"]

\* `await authCodePromise` of the given strategy, then `return result`
AwaitAuthCodePromise(st, strategy) ==
    IF st.w[strategy].promise # NoResult
    THEN Return(st, st.w[strategy].promise)
    ELSE [st EXCEPT !.pc = IF strategy = "app" THEN "app_await" ELSE "br_await"]

BrowserStartLaunchFirst(st) ==
    [st EXCEPT !.w.browser = ArmedWaiter,
               !.trace = @ \o <<"openAuthSessionAsync", "addEventListener:browser",
                                "setTimeout:browser">>,
               !.pc = "br_session"]

\* authenticateWithUAEPassBrowser up to `await WebBrowser.openAuthSessionAsync`
BrowserStart(st) ==
    [st EXCEPT !.w.browser = ArmedWaiter,
               !.trace = @ \o <<"addEventListener:browser", "setTimeout:browser",
                                "openAuthSessionAsync">>,
               !.pc = "br_session"]

\* authenticateWithUAEPassApp: the Linking fallback, up to `await Linking.canOpenURL`
AppTryLinking(st) ==
    [st EXCEPT !.trace = Append(@, "canOpenURL"), !.pc = "app_canopen"]

\* authenticateWithUAEPassApp: `if (UAEPassModule?.launchUAEPassApp)`
AppTryLaunch(st, env) ==
    IF env.os = "android" /\ env.module /\ env.hasLaunch
    THEN [st EXCEPT !.trace = Append(@, "launchUAEPassApp"), !.pc = "app_launch"]
    ELSE AppTryLinking(st)

AppTryLaunchBeforeIntent(st, env) ==
    IF env.os = "android" /\ env.module /\ env.hasLaunch
    THEN [st EXCEPT !.trace = Append(@, "launchUAEPassApp"), !.pc = "app_launch"]
    ELSE IF env.os = "android" /\ env.module /\ env.hasIntent
    THEN [st EXCEPT !.trace = Append(@, "openUAEPassWithIntent"), !.pc = "app_intent"]
    ELSE AppTryLinking(st)

\* authenticateWithUAEPassApp: `if (UAEPassModule?.openUAEPassWithIntent)`
AppTryIntent(st, env) ==
    IF env.os = "android" /\ env.module /\ env.hasIntent
    THEN [st EXCEPT !.trace = Append(@, "openUAEPassWithIntent"), !.pc = "app_intent"]
    ELSE AppTryLaunch(st, env)

\* authenticateWithUAEPassApp up to its first await
AppStart(st, env) ==
    AppTryIntent([st EXCEPT !.w.app = ArmedWaiter,
                            !.trace = @ \o <<"addEventListener:app", "setTimeout:app">>],
                 env)

SelectFlowByDetectionOnly(st, env, appInstalled) ==
    IF appInstalled THEN AppStart(st, env) ELSE BrowserStart(st)

\* authenticateWithUAEPass, step 5
SelectFlow(st, env, appInstalled) ==
    IF appInstalled /\ env.os = "android" THEN AppStart(st, env) ELSE BrowserStart(st)

AcrForAlwaysLow(appInstalled) == ACR_LOW

\* appInstalled ? MOBILE_ON_DEVICE : LOW
AcrFor(appInstalled) ==
    IF appInstalled THEN ACR_MOBILE_ON_DEVICE ELSE ACR_LOW

NewSessionWithChallenge(config, appInstalled, s, v) ==
    [config |-> config, state |-> s, codeVerifier |-> v,
     acrValue |-> AcrFor(appInstalled),
     authUrl |-> [buildAuthorizationURL(globalConfig.authorizationEndpoint,
                                        config.clientId, config.redirectUri,
                                        config.scopes, AcrFor(appInstalled), s)
                    EXCEPT !.query = Append(@, Param("code_challenge", v))],
     appInstalled |-> appInstalled]

\* the security parameters and the authorization URL of a call; config is the
\* call's `config` local, and buildAuthorizationURL reads the endpoint from
\* getUAEPassConfig() again
NewSession(config, appInstalled, s, v) ==
    [config |-> config, state |-> s, codeVerifier |-> v,
     acrValue |-> AcrFor(appInstalled),
     authUrl |-> buildAuthorizationURL(globalConfig.authorizationEndpoint,
                                       config.clientId, config.redirectUri,
                                       config.scopes, AcrFor(appInstalled), s),
     appInstalled |-> appInstalled]

\* what prepareUAEPassAuth returns
ParamsOf(sess) ==
    [authUrl |-> sess.authUrl, redirectUri |-> sess.config.redirectUri,
     state |-> sess.state, codeVerifier |-> sess.codeVerifier,
     acrValue |-> sess.acrValue, useWebView |-> sess.appInstalled]

DeferredWithoutMarker(params) ==
    [success |-> TRUE, authorizationCode |-> NULL, state |-> params.state,
     codeVerifier |-> params.codeVerifier, error |-> NULL, details |-> NoDetails]

\* useUAEPassAuth.authenticate: the result that hands over to the WebView
Deferred(params) ==
    [success |-> TRUE, authorizationCode |-> NULL, state |-> params.state,
     codeVerifier |-> params.codeVerifier, error |-> NULL,
     details |-> [cause |-> NULL, useWebView |-> TRUE, authUrl |-> params.authUrl,
                  redirectUri |-> params.redirectUri,
                  expectedState |-> params.state]]

AfterDetectionHookAlwaysBrowser(st0, env, appInstalled, s, v) ==
    LET st == [st0 EXCEPT !.installed = IF appInstalled THEN "true" ELSE "false"] IN
    IF st.entry = "isUAEPassAppInstalled"
    THEN [st EXCEPT !.pc = "done"]
    ELSE IF st.entry = "prepareUAEPassAuth"
    THEN LET sess == NewSession(st.sess.config, appInstalled, s, v) IN
         [st EXCEPT !.sess = sess, !.pc = "done", !.prepared = ParamsOf(sess)]
    ELSE IF st.entry = "useUAEPassAuth.authenticate"
    THEN BrowserStart([st EXCEPT !.sess = NewSession(st.sess.config, appInstalled, s, v)])
    ELSE IF ~globalConfig.configured
    THEN Throw([st EXCEPT !.sess = [NoSession EXCEPT !.state = s,
                                                     !.codeVerifier = v,
                                                     !.acrValue = AcrFor(appInstalled),
                                                     !.appInstalled = appInstalled]],
               MsgNotConfigured)
    ELSE SelectFlow([st EXCEPT !.sess = NewSession(globalConfig, appInstalled, s, v)],
                    env, appInstalled)

\* the call runs on after its isUAEPassAppInstalled() returned appInstalled,
\* up to its next await of a platform primitive or to its return.
\* s and v are what generateState() and generateCodeVerifier() return.
AfterDetection(st0, env, appInstalled, s, v) ==
    LET st == [st0 EXCEPT !.installed = IF appInstalled THEN "true" ELSE "false"] IN
    IF st.entry = "isUAEPassAppInstalled"
    THEN [st EXCEPT !.pc = "done"]
    ELSE IF st.entry = "prepareUAEPassAuth"
    THEN LET sess == NewSession(st.sess.config, appInstalled, s, v) IN
         [st EXCEPT !.sess = sess, !.pc = "done", !.prepared = ParamsOf(sess)]
    ELSE IF st.entry = "useUAEPassAuth.authenticate"
    THEN LET sess == NewSession(st.sess.config, appInstalled, s, v) IN
         IF ParamsOf(sess).useWebView
         THEN HookFinish([st EXCEPT !.sess = sess], Deferred(ParamsOf(sess)),
                         "onSuccess")
         ELSE BrowserStart([st EXCEPT !.sess = sess])
    ELSE IF ~globalConfig.configured
    THEN Throw([st EXCEPT !.sess = [NoSession EXCEPT !.state = s,
                                                     !.codeVerifier = v,
                                                     !.acrValue = AcrFor(appInstalled),
                                                     !.appInstalled = appInstalled]],
               MsgNotConfigured)
    ELSE SelectFlow([st EXCEPT !.sess = NewSession(globalConfig, appInstalled, s, v)],
                    env, appInstalled)

\* the listener callback of the browser strategy, for one event
BrowserListener(w, url, sess) ==
    [w EXCEPT !.ev = url,
              !.sub = Remove(@),
              !.promise = Resolve(@, WithVerifier(parseCallbackURL(url, sess.state),
                                                  sess.codeVerifier))]

\* the listener callback of the native-app strategy, for one event
AppListener(w, url, sess) ==
    IF IncludesRedirectUri(url) \/ IncludesCodeMarker(url)
    THEN [w EXCEPT !.ev = url,
                   !.sub = Remove(@),
                   !.promise = Resolve(@, WithVerifier(parseCallbackURL(url, sess.state),
                                                       sess.codeVerifier))]
    ELSE w

TimerCallbackKeepListener(w, strategy) ==
    [w EXCEPT !.timer = "fired",
              !.promise = Resolve(@, Failure(TimeoutMessage(strategy)))]

TimerCallbackWithoutResolve(w, strategy) ==
    [w EXCEPT !.timer = "fired", !.sub = Remove(@)]

\* the setTimeout callback of either strategy
TimerCallback(w, strategy) ==
    [w EXCEPT !.timer = "fired",
              !.sub = Remove(@),
              !.promise = Resolve(@, Failure(TimeoutMessage(strategy)))]

\* the event emitter calls every listener that is registered
Deliver(w, strategy, url, sess) ==
    IF w.sub # "registered" THEN w
    ELSE IF strategy = "app" THEN AppListener(w, url, sess)
    ELSE BrowserListener(w, url, sess)

ResumeOnAnyPromise(st) ==
    IF st.pc \in {"app_await", "br_await"} /\ st.w.app.promise # NoResult
    THEN Return(st, st.w.app.promise)
    ELSE IF st.pc = "br_await" /\ st.w.browser.promise # NoResult
    THEN Return(st, st.w.browser.promise)
    ELSE st

\* continuation of `await authCodePromise` once the promise is settled
Resume(st) ==
    IF st.pc = "app_await" /\ st.w.app.promise # NoResult
    THEN Return(st, st.w.app.promise)
    ELSE IF st.pc = "br_await" /\ st.w.browser.promise # NoResult
    THEN Return(st, st.w.browser.promise)
    ELSE st

\* write back the state of every call (sts) and of the hook (h)
CommitAll(sts, h) ==
    /\ entry' = [a \in Attempts |-> sts[a].entry]
    /\ pc' = [a \in Attempts |-> sts[a].pc]
    /\ session' = [a \in Attempts |-> sts[a].sess]
    /\ waiters' = [a \in Attempts |-> sts[a].w]
    /\ trace' = [a \in Attempts |-> sts[a].trace]
    /\ returned' = [a \in Attempts |-> sts[a].ret]
    /\ thrown' = [a \in Attempts |-> sts[a].thrown]
    /\ installed' = [a \in Attempts |-> sts[a].installed]
    /\ detectOutcome' = [a \in Attempts |-> sts[a].detected]
    /\ prepared' = [a \in Attempts |-> sts[a].prepared]
    /\ isLoading' = h.isLoading
    /\ authResult' = h.authResult
    /\ callbacks' = h.callbacks

\* write one call's state back
Commit(a, st) ==
    CommitAll([b \in Attempts |-> IF b = a THEN st ELSE AttemptState(b)], st.h)

-----------------------------------------------------------------------------
(* Actions *)

\* configureUAEPass(config, appSchemes)
Configure(env, appSchemes) ==
    /\ globalConfig' = Config(env)
    /\ globalAppSchemes' =
         IF appSchemes.given
         THEN [e \in Environments |->
                 MergeSchemes(DEFAULT_APP_SCHEMES[e], appSchemes[e])]
         ELSE globalAppSchemes
    /\ UNCHANGED <<platformEnv, callVars, hookVars, partVars>>

\* isUAEPassAppInstalled reaches a platform primitive (it awaits
\* UAEPassModule.isUAEPassInstalled or Linking.canOpenURL) exactly when the
\* configuration exists and, on Android, the native module exists
DetectionCallsPrimitive ==
    /\ globalConfig.configured
    /\ (platformEnv.os = "android" => platformEnv.module)

DetectionPrimitive ==
    IF platformEnv.os = "android" THEN "isUAEPassInstalled" ELSE "canOpenURL:detect"

\* isUAEPassAppInstalled() as called by st, up to its await of the platform
\* primitive; without one it yields false and the call runs on
Detect(st, s, v) ==
    IF DetectionCallsPrimitive
    THEN [st EXCEPT !.pc = "detect", !.trace = Append(@, DetectionPrimitive)]
    ELSE AfterDetection(st, platformEnv, FALSE, s, v)

\* authenticateWithUAEPass(), from the call to its first await of a platform
\* primitive.
\* s and v are what generateState() and generateCodeVerifier() return.
Start(a, s, v) ==
    /\ pc[a] = "idle"
    /\ Commit(a, Detect([AttemptState(a) EXCEPT !.entry = "authenticateWithUAEPass"],
                        s, v))
    /\ UNCHANGED <<configVars, platformEnv, partVars>>

\* the hook's authenticate(), from the call to its first await of a platform
\* primitive: setIsLoading(true), setAuthResult(null), getUAEPassConfig(),
\* prepareUAEPassAuth()
HookAuthenticate(a, s, v) ==
    /\ pc[a] = "idle"
    /\ LET st == [AttemptState(a) EXCEPT !.entry = "useUAEPassAuth.authenticate",
                                         !.h.isLoading = TRUE,
                                         !.h.authResult = NoResult,
                                         !.sess.config = globalConfig]
       IN Commit(a, IF ~globalConfig.configured THEN Throw(st, MsgNotConfigured)
                    ELSE Detect(st, s, v))
    /\ UNCHANGED <<configVars, platformEnv, partVars>>

\* prepareUAEPassAuth() called directly
PrepareAuth(a, s, v) ==
    /\ pc[a] = "idle"
    /\ LET st == [AttemptState(a) EXCEPT !.entry = "prepareUAEPassAuth",
                                         !.sess.config = globalConfig]
       IN Commit(a, IF ~globalConfig.configured THEN Throw(st, MsgNotConfigured)
                    ELSE Detect(st, s, v))
    /\ UNCHANGED <<configVars, platformEnv, partVars>>

\* isUAEPassAppInstalled() called directly
IsInstalled(a) ==
    /\ pc[a] = "idle"
    /\ Commit(a, Detect([AttemptState(a) EXCEPT !.entry = "isUAEPassAppInstalled"],
                        NULL, NULL))
    /\ UNCHANGED <<configVars, platformEnv, partVars>>

\* authenticateWithUAEPassBrowser(authUrl, state, codeVerifier) called directly
BrowserDirect(a, authUrl, s, v) ==
    /\ pc[a] = "idle"
    /\ LET st == [AttemptState(a) EXCEPT
                     !.entry = "authenticateWithUAEPassBrowser",
                     !.sess = [NoSession EXCEPT !.config = globalConfig,
                                                !.state = s,
                                                !.codeVerifier = v,
                                                !.authUrl = authUrl]]
       IN Commit(a, IF ~globalConfig.configured THEN Throw(st, MsgNotConfigured)
                    ELSE BrowserStart(st))
    /\ UNCHANGED <<configVars, platformEnv, partVars>>

DetectReturnUncaught(a, outcome, s, v) ==
    /\ pc[a] = "detect"
    /\ Commit(a, IF outcome = "throw"
                 THEN Throw([AttemptState(a) EXCEPT !.detected = outcome],
                            "detection failed")
                 ELSE AfterDetection([AttemptState(a) EXCEPT !.detected = outcome],
                                     platformEnv, outcome = "true", s, v))
    /\ UNCHANGED <<configVars, platformEnv, partVars>>

\* the detection primitive returns true or false, or rejects ("throw", which
\* isUAEPassAppInstalled turns into false); the call runs on.
\* s and v are what generateState() and generateCodeVerifier() return.
DetectReturn(a, outcome, s, v) ==
    /\ pc[a] = "detect"
    /\ Commit(a, AfterDetection([AttemptState(a) EXCEPT !.detected = outcome],
                                 platformEnv, outcome = "true", s, v))
    /\ UNCHANGED <<configVars, platformEnv, partVars>>

\* UAEPassModule.openUAEPassWithIntent resolves (ok) or rejects
IntentReturn(a, ok) ==
    /\ pc[a] = "app_intent"
    /\ Commit(a, IF ok THEN AwaitAuthCodePromise(AttemptState(a), "app")
                 ELSE AppTryLaunch(AttemptState(a), platformEnv))
    /\ UNCHANGED <<configVars, platformEnv, partVars>>

\* UAEPassModule.launchUAEPassApp resolves (ok) or rejects
LaunchReturn(a, ok) ==
    /\ pc[a] = "app_launch"
    /\ Commit(a, IF ok THEN AwaitAuthCodePromise(AttemptState(a), "app")
                 ELSE AppTryLinking(AttemptState(a)))
    /\ UNCHANGED <<configVars, platformEnv, partVars>>

\* authenticateWithUAEPassApp after `await Linking.canOpenURL`
CanOpenContinue(st, outcome) ==
    IF outcome = "true"
    THEN [st EXCEPT !.trace = Append(@, "openURL"), !.pc = "app_openurl"]
    ELSE BrowserStart(st)

\* Linking.canOpenURL(`${uaePassScheme}://`) returns true or false, or rejects
CanOpenReturn(a, outcome) ==
    /\ pc[a] = "app_canopen"
    /\ Commit(a, CanOpenContinue(AttemptState(a), outcome))
    /\ UNCHANGED <<configVars, platformEnv, partVars>>

\* authenticateWithUAEPassApp after `await Linking.openURL`
OpenURLContinue(st, ok) ==
    IF ok THEN AwaitAuthCodePromise(st, "app") ELSE BrowserStart(st)

\* Linking.openURL(deepLinkUrl) resolves (ok) or rejects
OpenURLReturn(a, ok) ==
    /\ pc[a] = "app_openurl"
    /\ Commit(a, OpenURLContinue(AttemptState(a), ok))
    /\ UNCHANGED <<configVars, platformEnv, partVars>>

\* what openAuthSessionAsync settles with: success with or without a URL,
\* cancel, dismiss, another kind ("opened"), or a rejection ("throw")
BrowserOutcomes ==
    {[type |-> "success", url |-> u] : u \in FlowUrls} \cup
    {[type |-> t, url |-> NoEvent] :
        t \in {"success", "cancel", "dismiss", "opened", "throw"}}

BrowserContinueCatchAll(st, sess, outcome) ==
    IF outcome.type = "success" /\ outcome.url # NoEvent
    THEN Return(st, WithVerifier(parseCallbackURL(outcome.url, sess.state),
                                 sess.codeVerifier))
    ELSE IF outcome.type = "cancel"
    THEN Return(st, Failure(MsgUserCancelled))
    ELSE IF outcome.type = "throw"
    THEN Return(st, FailureWithDetails(MsgSessionFailed, "Error"))
    ELSE AwaitAuthCodePromise(st, "browser")

BrowserContinuePromiseFirst(st, sess, outcome) ==
    IF st.w.browser.promise # NoResult
    THEN Return(st, st.w.browser.promise)
    ELSE IF outcome.type = "success" /\ outcome.url # NoEvent
    THEN Return(st, WithVerifier(parseCallbackURL(outcome.url, sess.state),
                                 sess.codeVerifier))
    ELSE IF outcome.type = "cancel"
    THEN Return(st, Failure(MsgUserCancelled))
    ELSE IF outcome.type = "throw"
    THEN Throw(st, MsgSessionFailed)
    ELSE AwaitAuthCodePromise(st, "browser")

\* authenticateWithUAEPassBrowser after `await WebBrowser.openAuthSessionAsync`;
\* a rejection ("throw") is not caught inside the strategy
BrowserContinue(st, sess, outcome) ==
    IF outcome.type = "success" /\ outcome.url # NoEvent
    THEN Return(st, WithVerifier(parseCallbackURL(outcome.url, sess.state),
                                 sess.codeVerifier))
    ELSE IF outcome.type = "cancel"
    THEN Return(st, Failure(MsgUserCancelled))
    ELSE IF outcome.type = "throw"
    THEN Throw(st, MsgSessionFailed)
    ELSE AwaitAuthCodePromise(st, "browser")

\* WebBrowser.openAuthSessionAsync completes
BrowserReturn(a, outcome) ==
    /\ pc[a] = "br_session"
    /\ Commit(a, BrowserContinue(AttemptState(a), session[a], outcome))
    /\ UNCHANGED <<configVars, platformEnv, partVars>>

\* the calls 1..n after an event was delivered (ws: every call's waiters
\* after it): those awaiting a promise it settled continue, one after the
\* other, each seeing the hook state the one before left
RECURSIVE ResumeUpTo(_, _)
ResumeUpTo(n, ws) ==
    IF n = 0 THEN <<>>
    ELSE LET before == ResumeUpTo(n - 1, ws) IN
         Append(before,
                Resume([AttemptState(n) EXCEPT
                           !.w = ws[n],
                           !.h = IF n = 1 THEN HookState ELSE before[n - 1].h]))

\* the OS delivers a deep link: Linking emits 'url' to every registered
\* listener, then the calls awaiting a promise it settled continue
DeepLink(url) ==
    /\ \E a \in Attempts, s \in Strategies : waiters[a][s].sub = "registered"
    /\ LET ws == [a \in Attempts |->
                    [s \in Strategies |-> Deliver(waiters[a][s], s, url, session[a])]]
           sts == ResumeUpTo(Cardinality(Attempts), ws)
       IN CommitAll(sts, sts[Cardinality(Attempts)].h)
    /\ UNCHANGED <<configVars, platformEnv, partVars>>

\* a 5-minute timer fires; timers of equal delay fire in the order they were
\* armed, so a call's browser timer waits for its native-app timer
TimerFire(a, s) ==
    /\ waiters[a][s].timer = "armed"
    /\ s = "browser" => waiters[a]["app"].timer # "armed"
    /\ Commit(a, Resume([AttemptState(a) EXCEPT
                            !.w[s] = TimerCallback(waiters[a][s], s)]))
    /\ UNCHANGED <<configVars, platformEnv, partVars>>

-----------------------------------------------------------------------------
(* WebView bridge (UAEPassWebViewAuth.tsx).  One task is one run of a       *)
(* handler of the component; the state updates it makes are rendered, and  *)
(* the deep-link effect run again, before the next event.  A URL's query   *)
(* holds the values URLSearchParams.get returns, that is, decoded once.    *)

\* The value of a parameter of an IdP deep link or of a resume link: a
\* string the bridge does not parse (plain), a string that is the URL url,
\* or null
PlainText(s) == [kind |-> "plain", text |-> s, url |-> NoUrl]

UrlText(u) == [kind |-> "url", text |-> "", url |-> u]

NoText == [kind |-> "null", text |-> "", url |-> NoUrl]

\* JavaScript truthiness of string | null
TextTruthy(t) == t.kind # "null" /\ t # PlainText("")

\* the IdP's continuation URLs: without a percent sign, with an escape
\* sequence, and with a percent sign that starts no escape sequence
SuccessText == "https://ids.uaepass.ae/resume_authn?status=success"
FailureText == "https://ids.uaepass.ae/resume_authn?status=failure"
EscapedText == "https://ids.uaepass.ae/resume_authn?next=%2Fhome"
UnescapedText == "https://ids.uaepass.ae/resume_authn?next=/home"
StrayPercentText == "https://ids.uaepass.ae/resume_authn?rate=100%"
\* a URL that is none of the IdP's
ForeignText == "https://example.org/"

URIError == "<URIError>"

\* decodeURIComponent(s): s without a percent sign is returned as it is, an
\* escape sequence is replaced, and a malformed one throws
decodeURIComponent(s) ==
    IF s = StrayPercentText THEN URIError
    ELSE IF s = EscapedText THEN UnescapedText
    ELSE s

\* URLSearchParams.get for a parameter whose value is a text
RECURSIVE TextParamsGet(_, _)
TextParamsGet(query, key) ==
    IF query = <<>> THEN NoText
    ELSE IF Head(query).key = key THEN Head(query).value
    ELSE TextParamsGet(Tail(query), key)

RECURSIVE WithoutKey(_, _)
WithoutKey(query, key) ==
    IF query = <<>> THEN <<>>
    ELSE IF Head(query).key = key THEN WithoutKey(Tail(query), key)
    ELSE <<Head(query)>> \o WithoutKey(Tail(query), key)

\* URLSearchParams.set: the first parameter named key gets the value and the
\* others named key are dropped; without one the parameter is appended
RECURSIVE SearchParamsSet(_, _, _)
SearchParamsSet(query, key, value) ==
    IF query = <<>> THEN <<Param(key, value)>>
    ELSE IF Head(query).key = key
    THEN <<Param(key, value)>> \o WithoutKey(Tail(query), key)
    ELSE <<Head(query)>> \o SearchParamsSet(Tail(query), key, value)

\* const UAE_PASS_SCHEME, without the ://
UAE_PASS_SCHEME(env) == IF env = "production" THEN "uaepass" ELSE "uaepassstg"

\* const OUR_APP_SCHEME = redirectUri.split('://')[0] + '://', without the ://
OUR_APP_SCHEME(redirectUri) ==
    IF redirectUri = "yourapp://auth/uaepass" THEN RedirectScheme ELSE NULL

ResumePath == "auth/uaepass/resume"

\* `${OUR_APP_SCHEME}auth/uaepass/resume?url=${encodeURIComponent(text)}`:
\* the URL whose `url` parameter reads back as text
ResumeLink(ourScheme, text) == Url(ourScheme, ResumePath, <<Param("url", text)>>)

NoProps == [authUrl |-> NoUrl, redirectUri |-> NULL, expectedState |-> NULL]

NoSavedUrls == [successURL |-> NULL, failureURL |-> NULL, originalUrl |-> NoUrl]

NoBridgeEvent == [n |-> 0, handler |-> "none", returned |-> "none"]

\* the props callbacks, as invoked
OnSuccess(code, state) ==
    [name |-> "onSuccess", code |-> code, state |-> state, message |-> NULL]

OnError(message) ==
    [name |-> "onError", code |-> NULL, state |-> NULL, message |-> message]

OnCancel == [name |-> "onCancel", code |-> NULL, state |-> NULL, message |-> NULL]

MsgInvalidStateCsrf == "Invalid state parameter - possible CSRF attack"
MsgOpenFailed == "Failed to open UAE Pass app"
MsgProcessFailed == "Failed to process UAE Pass authentication"
MsgWebViewError == "WebView error"

\* the component before it is shown
BridgeIdle ==
    /\ bridgeProps = NoProps
    /\ savedUrls = NoSavedUrls
    /\ waitingForCallback = FALSE
    /\ currentUrl = NoText
    /\ initialUrl = NoUrl
    /\ initialUrlThen = <<>>
    /\ opened = <<>>
    /\ bridgeCallbacks = <<>>
    /\ lastEvent = NoBridgeEvent

\* the component's state and what it did so far; savedSet is whether the
\* handler that runs called setSavedUrls, returned is what it returns
BridgeState ==
    [savedUrls |-> savedUrls, waitingForCallback |-> waitingForCallback,
     currentUrl |-> currentUrl, thens |-> initialUrlThen, opened |-> opened,
     callbacks |-> bridgeCallbacks, savedSet |-> FALSE, returned |-> "none"]

\* the closure of the deep-link effect of a render
EffectClosure(b) ==
    [savedUrls |-> b.savedUrls, waitingForCallback |-> b.waitingForCallback]

\* the render after a handler: the effect runs again when savedUrls was set
\* or waitingForCallback changed, and calls Linking.getInitialURL() once more
Rendered(b0, b) ==
    IF b.savedSet \/ b.waitingForCallback # b0.waitingForCallback
    THEN [b EXCEPT !.thens = Append(@, EffectClosure(b))]
    ELSE b

ParseAuthorizationCodeNoStateCheck(url, ourScheme, expectedState) ==
    LET normalizedUrl == IF url.wellFormed /\ url.scheme = ourScheme
                         THEN [url EXCEPT !.scheme = "https"] ELSE url
    IN IF ~normalizedUrl.wellFormed THEN OnError(MsgParseFailed)
       ELSE
         LET code == SearchParamsGet(normalizedUrl.query, "code")
             state == SearchParamsGet(normalizedUrl.query, "state")
             error == SearchParamsGet(normalizedUrl.query, "error")
             errorDescription == SearchParamsGet(normalizedUrl.query, "error_description")
         IN IF Truthy(error)
            THEN OnError(IF Truthy(errorDescription) THEN errorDescription ELSE error)
            ELSE IF Truthy(code)
            THEN OnSuccess(code, IF Truthy(state) THEN state ELSE "")
            ELSE OnError(MsgNoCode)

\* parseAuthorizationCode(url): the props callback it invokes
parseAuthorizationCode(url, ourScheme, expectedState) ==
    LET normalizedUrl == IF url.wellFormed /\ url.scheme = ourScheme
                         THEN [url EXCEPT !.scheme = "https"] ELSE url
    IN IF ~normalizedUrl.wellFormed THEN OnError(MsgParseFailed)
       ELSE
         LET code == SearchParamsGet(normalizedUrl.query, "code")
             state == SearchParamsGet(normalizedUrl.query, "state")
             error == SearchParamsGet(normalizedUrl.query, "error")
             errorDescription == SearchParamsGet(normalizedUrl.query, "error_description")
         IN IF Truthy(error)
            THEN OnError(IF Truthy(errorDescription) THEN errorDescription ELSE error)
            ELSE IF state # expectedState THEN OnError(MsgInvalidStateCsrf)
            ELSE IF Truthy(code)
            THEN OnSuccess(code, IF Truthy(state) THEN state ELSE "")
            ELSE OnError(MsgNoCode)

\* a props callback is invoked
Invoke(b, callback) == [b EXCEPT !.callbacks = Append(@, callback)]

OpenUrlForUnchanged(env, url) == url

\* let openUrl = url; if (env === 'staging' && url.startsWith('uaepass://'))
\* openUrl = url.replace('uaepass://', 'uaepassstg://')
OpenUrlFor(env, url) ==
    IF env = "staging" /\ url.scheme = "uaepass"
    THEN [url EXCEPT !.scheme = "uaepassstg"]
    ELSE url

\* Linking.openURL(openUrl).catch(() => onError(message)), then return false
HandOff(b, openUrl, message) ==
    [b EXCEPT !.opened = Append(@, [url |-> openUrl, message |-> message,
                                    settled |-> FALSE]),
              !.returned = "false"]

\* the catch block of the IdP branch
ParseFailureBranch(b, env, url) ==
    HandOff(b, OpenUrlFor(env, url), MsgProcessFailed)

\* successURL already includes OUR_APP_SCHEME
AlreadyRewrittenBranch(b, env, url) ==
    HandOff([b EXCEPT !.waitingForCallback = TRUE], OpenUrlFor(env, url), MsgOpenFailed)

\* a success or failure URL is missing
NoParamsBranch(b, env, url) ==
    HandOff(b, OpenUrlFor(env, url), MsgOpenFailed)

\* both URLs are there: save them decoded, put the resume links in their
\* place under both spellings, and open the rewritten URL
RewriteBranch(b, env, url, ourScheme, successURL, failureURL) ==
    IF URIError \in {decodeURIComponent(successURL.text),
                     decodeURIComponent(failureURL.text)}
    THEN ParseFailureBranch(b, env, url)
    ELSE
      LET ourSuccessCallback == UrlText(ResumeLink(ourScheme, successURL))
          ourFailureCallback == UrlText(ResumeLink(ourScheme, failureURL))
          rewritten ==
            SearchParamsSet(
              SearchParamsSet(
                SearchParamsSet(
                  SearchParamsSet(url.query, "successURL", ourSuccessCallback),
                  "failureURL", ourFailureCallback),
                "successurl", ourSuccessCallback),
              "failureurl", ourFailureCallback)
      IN HandOff([b EXCEPT !.savedUrls =
                              [successURL |-> decodeURIComponent(successURL.text),
                               failureURL |-> decodeURIComponent(failureURL.text),
                               originalUrl |-> url],
                           !.savedSet = TRUE,
                           !.waitingForCallback = TRUE],
                 OpenUrlFor(env, [url EXCEPT !.query = rewritten]), MsgOpenFailed)

\* url.startsWith(UAE_PASS_SCHEME) || url.startsWith('uaepassstg://') ||
\* url.startsWith('uaepass://')
StartsWithIdpScheme(url, env) ==
    url.scheme \in {UAE_PASS_SCHEME(env), "uaepassstg", "uaepass"}

\* the paths that contain auth/uaepass
IncludesRedirectPath(path) == path \in {RedirectPath, ResumePath}

\* url.startsWith(redirectUri) || url.includes(redirectUri.replace(OUR_APP_SCHEME, ''))
MatchesRedirectUri(url, ourScheme) ==
    \/ url.scheme = ourScheme /\ IncludesRedirectPath(url.path)
    \/ IncludesRedirectPath(url.path)

\* the IdP branch of handleShouldStartLoadWithRequest (the try block)
IdpBranch(b, env, url, ourScheme) ==
    IF ~url.wellFormed THEN ParseFailureBranch(b, env, url)
    ELSE
      LET upper == TextParamsGet(url.query, "successURL")
          successURL == IF TextTruthy(upper) THEN upper
                        ELSE TextParamsGet(url.query, "successurl")
          upperF == TextParamsGet(url.query, "failureURL")
          failureURL == IF TextTruthy(upperF) THEN upperF
                        ELSE TextParamsGet(url.query, "failureurl")
      IN IF TextTruthy(successURL) /\ successURL.kind = "url"
            /\ successURL.url.scheme = ourScheme
         THEN AlreadyRewrittenBranch(b, env, url)
         ELSE IF TextTruthy(successURL) /\ TextTruthy(failureURL)
         THEN RewriteBranch(b, env, url, ourScheme, successURL, failureURL)
         ELSE NoParamsBranch(b, env, url)

HandleShouldStartLoadEnvSchemeOnly(b, env, url, props) ==
    LET ourScheme == OUR_APP_SCHEME(props.redirectUri) IN
    IF url.scheme = UAE_PASS_SCHEME(env)
    THEN IdpBranch(b, env, url, ourScheme)
    ELSE IF MatchesRedirectUri(url, ourScheme)
    THEN [Invoke(b, parseAuthorizationCode(url, ourScheme, props.expectedState))
             EXCEPT !.returned = "false"]
    ELSE [b EXCEPT !.returned = "true"]

\* handleShouldStartLoadWithRequest(request)
handleShouldStartLoadWithRequest(b, env, url, props) ==
    LET ourScheme == OUR_APP_SCHEME(props.redirectUri) IN
    IF StartsWithIdpScheme(url, env)
    THEN IdpBranch(b, env, url, ourScheme)
    ELSE IF MatchesRedirectUri(url, ourScheme)
    THEN [Invoke(b, parseAuthorizationCode(url, ourScheme, props.expectedState))
             EXCEPT !.returned = "false"]
    ELSE [b EXCEPT !.returned = "true"]

\* handleNavigationStateChange(navState)
handleNavigationStateChange(b, url, props) ==
    IF IncludesCodeMarker(url)
    THEN Invoke(b, parseAuthorizationCode(url, OUR_APP_SCHEME(props.redirectUri),
                                          props.expectedState))
    ELSE b

\* handleDeepLink(event) of the effect whose closure is given; an error
\* thrown by new URL or decodeURIComponent leaves the handler without a
\* state update.  The deep links of the model that contain resume_authn
\* contain the redirect URI too.
handleDeepLink(b, closure, url, props) ==
    LET ourScheme == OUR_APP_SCHEME(props.redirectUri) IN
    IF ~(url.scheme = ourScheme /\ IncludesRedirectPath(url.path)) THEN b
    ELSE IF ~url.wellFormed THEN b
    ELSE
      LET resumeUrl == TextParamsGet(url.query, "url") IN
      IF TextTruthy(resumeUrl) /\ closure.savedUrls # NoSavedUrls
      THEN IF decodeURIComponent(resumeUrl.text) = URIError THEN b
           ELSE [b EXCEPT !.currentUrl = PlainText(decodeURIComponent(resumeUrl.text)),
                          !.waitingForCallback = FALSE]
      ELSE IF IncludesCodeMarker(url)
      THEN Invoke(b, parseAuthorizationCode(url, ourScheme, props.expectedState))
      ELSE b

\* number of events one rendering session of the bridge handles
MaxBridgeEvents == 2

\* the IdP deep links the WebView is asked to load: without parameters, with
\* the success URL only, already rewritten, with both URLs (under either
\* spelling, with an escape sequence, with a stray percent sign), and one
\* `new URL` rejects
IdpQueries ==
    {<<>>, <<Param("successURL", PlainText(SuccessText))>>,
     <<Param("successURL", UrlText(ResumeLink(RedirectScheme, PlainText(SuccessText)))),
       Param("failureURL", UrlText(ResumeLink(RedirectScheme, PlainText(FailureText))))>>,
     <<Param("successurl", PlainText(SuccessText)),
       Param("failureurl", PlainText(FailureText))>>}
    \cup
    {<<Param("successURL", PlainText(t[1])), Param("failureURL", PlainText(t[2]))>> :
        t \in {<<SuccessText, FailureText>>, <<EscapedText, FailureText>>,
               <<SuccessText, StrayPercentText>>}}

IdpPath == "digitalid-users-ids/signatures"

IdpUrls ==
    {Url("uaepass", IdpPath, q) : q \in IdpQueries}
    \cup
    {Url("uaepassstg", IdpPath, q) :
        q \in {<<>>, <<Param("successURL", PlainText(SuccessText)),
                       Param("failureURL", PlainText(FailureText))>>}}
    \cup
    {[wellFormed |-> FALSE, scheme |-> sc, path |-> "", query |-> <<>>] :
        sc \in {"uaepass", "uaepassstg"}}

\* the queries of a redirect: error (with or without description), state and
\* code, each absent, empty or set
RedirectQueries ==
    {e \o s \o c :
        e \in {<<>>, <<Param("error", "")>>, <<Param("error", "cancelled")>>,
               <<Param("error", "cancelled"), Param("error_description", "denied")>>},
        s \in {<<>>} \cup {<<Param("state", t)>> : t \in StateTokens},
        c \in {<<>>, <<Param("code", "")>>, <<Param("code", "c1")>>}}

\* the redirects and the ordinary pages the WebView is asked to load
PageUrls ==
    {Url(RedirectScheme, RedirectPath, q) : q \in RedirectQueries}
    \cup
    {Url(sc, RedirectPath, <<Param("state", s), Param("code", "c1")>>) :
        sc \in {"https", "com.app2"}, s \in StateTokens}
    \cup
    {[wellFormed |-> FALSE, scheme |-> RedirectScheme, path |-> RedirectPath,
      query |-> <<>>],
     Url("https", "idshub/login", <<>>),
     Url("https", "idshub/login", <<Param("code", "c1")>>),
     MalformedUrl}

\* the navigations the WebView reports
NavigationUrls ==
    {CallbackUrl(s) : s \in StateTokens} \cup
    {Url("https", "idshub/login", <<>>), Url("https", "idshub/login", <<Param("code", "c1")>>)}

\* the deep links the OS delivers while the component is shown
BridgeDeepLinks ==
    {ResumeLink(RedirectScheme, PlainText(t)) :
        t \in {SuccessText, FailureText, EscapedText, ForeignText}}
    \cup {CallbackUrl(s) : s \in StateTokens} \cup {UnrelatedUrl}

\* write the component's state back after a handler ran and React rendered
BridgeCommit(b, handler, counted) ==
    LET r == Rendered(BridgeState, b) IN
    /\ savedUrls' = r.savedUrls
    /\ waitingForCallback' = r.waitingForCallback
    /\ currentUrl' = r.currentUrl
    /\ initialUrlThen' = r.thens
    /\ opened' = r.opened
    /\ bridgeCallbacks' = r.callbacks
    /\ lastEvent' = [n |-> lastEvent.n + (IF counted THEN 1 ELSE 0),
                     handler |-> handler, returned |-> r.returned]
    /\ UNCHANGED <<bridgeProps, initialUrl, flowVars, parserVars, generatorVars>>

\* the component is shown and may handle one more event
BridgeReady == bridgeProps # NoProps /\ lastEvent.n < MaxBridgeEvents

\* the WebView asks whether to load url (onShouldStartLoadWithRequest)
ShouldStartLoad(url) ==
    /\ BridgeReady
    /\ BridgeCommit(handleShouldStartLoadWithRequest(BridgeState, globalConfig.environment,
                                                      url, bridgeProps),
                    "handleShouldStartLoadWithRequest", TRUE)

\* the WebView reports a navigation (onNavigationStateChange)
NavigationStateChange(url) ==
    /\ BridgeReady
    /\ BridgeCommit(handleNavigationStateChange(BridgeState, url, bridgeProps),
                    "handleNavigationStateChange", TRUE)

\* Linking emits 'url' to the listener of the latest effect
BridgeDeepLink(url) ==
    /\ BridgeReady
    /\ BridgeCommit(handleDeepLink(BridgeState, EffectClosure(BridgeState), url,
                                   bridgeProps),
                    "handleDeepLink", TRUE)

\* the oldest pending Linking.getInitialURL() resolves: its effect's
\* handleDeepLink runs if there is a URL and that render was waiting
InitialUrlResolved ==
    /\ initialUrlThen # <<>>
    /\ LET closure == Head(initialUrlThen)
           b == [BridgeState EXCEPT !.thens = Tail(@)]
       IN BridgeCommit(IF initialUrl # NoUrl /\ closure.waitingForCallback
                       THEN handleDeepLink(b, closure, initialUrl, bridgeProps)
                       ELSE b,
                       "getInitialURL", FALSE)

\* a pending Linking.openURL rejects: its catch reports the error
OpenURLRejected(i) ==
    /\ i \in 1..Len(opened)
    /\ ~opened[i].settled
    /\ BridgeCommit(Invoke([BridgeState EXCEPT !.opened[i].settled = TRUE],
                           OnError(opened[i].message)),
                    "openURL.catch", FALSE)

\* the WebView's onError: errors of the IdP schemes and code -10 are ignored
WebViewError(url, code) ==
    /\ BridgeReady
    /\ BridgeCommit(IF url.scheme \in {UAE_PASS_SCHEME(globalConfig.environment),
                                       "uaepass", "uaepassstg"} \/ code = -10
                    THEN BridgeState
                    ELSE Invoke(BridgeState, OnError(MsgWebViewError)),
                    "onError", TRUE)

\* the close button or the Modal's onRequestClose
RequestClose ==
    /\ BridgeReady
    /\ BridgeCommit(Invoke(BridgeState, OnCancel), "onRequestClose", TRUE)

-----------------------------------------------------------------------------
(* Specifications *)

\* the per-call variables before any call, for the calls in A
NoAttemptsYet(A) ==
    /\ entry = [a \in A |-> "none"]
    /\ pc = [a \in A |-> "idle"]
    /\ session = [a \in A |-> NoSession]
    /\ waiters = [a \in A |-> [s \in Strategies |-> NoWaiter]]
    /\ returned = [a \in A |-> NoResult]
    /\ thrown = [a \in A |-> NULL]
    /\ installed = [a \in A |-> "none"]
    /\ detectOutcome = [a \in A |-> "none"]
    /\ prepared = [a \in A |-> NoParams]
    /\ trace = [a \in A |-> <<>>]

\* useState(false), useState(null)
HookInit ==
    /\ isLoading = FALSE
    /\ authResult = NoResult
    /\ callbacks = <<>>

FlowIdle ==
    /\ globalConfig = NoConfig
    /\ globalAppSchemes = DEFAULT_APP_SCHEMES
    /\ platformEnv = [os |-> "ios", module |-> FALSE, hasIntent |-> FALSE,
                      hasLaunch |-> FALSE]
    /\ NoAttemptsYet({})
    /\ HookInit

\* one call, on any platform, configured or not.  Calls share nothing but
\* the configuration, the hook's state and the stream of deep links, and the
\* stream is arbitrary here, so the claims about a single call are settled
\* with one call; SpecConcurrent runs several together.
FlowInit ==
    /\ globalConfig = NoConfig
    /\ globalAppSchemes = DEFAULT_APP_SCHEMES
    /\ platformEnv \in PlatformEnvs
    /\ NoAttemptsYet({1})
    /\ HookInit

\* MaxAttempts calls in flight together, after configureUAEPass(), on iOS
\* (browser strategy) or on Android with the native module's
\* openUAEPassWithIntent (native-app strategy)
ConcurrentInit ==
    /\ globalConfig = Config("staging")
    /\ globalAppSchemes = DEFAULT_APP_SCHEMES
    /\ platformEnv \in
         {[os |-> "ios", module |-> FALSE, hasIntent |-> FALSE, hasLaunch |-> FALSE],
          [os |-> "android", module |-> TRUE, hasIntent |-> TRUE, hasLaunch |-> FALSE]}
    /\ NoAttemptsYet(1..MaxAttempts)
    /\ HookInit

Init == FlowInit /\ ParserIdle /\ GeneratorIdle /\ BridgeIdle

Outcomes == {"true", "false", "throw"}

\* one call of authenticateWithUAEPass()
Next ==
    \/ \E env \in Environments, o \in SchemeOverrides : Configure(env, o)
    \/ \E a \in Attempts, s \in StateTokens, v \in Verifiers : Start(a, s, v)
    \/ \E a \in Attempts, outcome \in Outcomes, s \in StateTokens, v \in Verifiers :
          DetectReturn(a, outcome, s, v)
    \/ \E a \in Attempts, ok \in BOOLEAN : IntentReturn(a, ok)
    \/ \E a \in Attempts, ok \in BOOLEAN : LaunchReturn(a, ok)
    \/ \E a \in Attempts, outcome \in Outcomes : CanOpenReturn(a, outcome)
    \/ \E a \in Attempts, ok \in BOOLEAN : OpenURLReturn(a, ok)
    \/ \E a \in Attempts, outcome \in BrowserOutcomes : BrowserReturn(a, outcome)
    \/ \E url \in FlowUrls : DeepLink(url)
    \/ \E a \in Attempts, s \in Strategies : TimerFire(a, s)

Spec == Init /\ [][Next]_vars

\* the authorization URLs a direct caller of the browser strategy passes
AcrValues == {ACR_LOW, ACR_MOBILE_ON_DEVICE}

\* one call of any exported function: authenticateWithUAEPass(), the hook's
\* authenticate(), prepareUAEPassAuth(), isUAEPassAppInstalled() or
\* authenticateWithUAEPassBrowser()
NextApi ==
    \/ \E env \in Environments, o \in SchemeOverrides : Configure(env, o)
    \/ \E a \in Attempts, s \in StateTokens, v \in Verifiers : Start(a, s, v)
    \/ \E a \in Attempts, s \in StateTokens, v \in Verifiers : HookAuthenticate(a, s, v)
    \/ \E a \in Attempts, s \in StateTokens, v \in Verifiers : PrepareAuth(a, s, v)
    \/ \E a \in Attempts : IsInstalled(a)
    \/ \E a \in Attempts, acr \in AcrValues, s \in StateTokens, v \in Verifiers :
          BrowserDirect(a, buildAuthorizationURL(globalConfig.authorizationEndpoint,
                                                 globalConfig.clientId,
                                                 globalConfig.redirectUri,
                                                 globalConfig.scopes, acr, s),
                        s, v)
    \/ \E a \in Attempts, outcome \in Outcomes, s \in StateTokens, v \in Verifiers :
          DetectReturn(a, outcome, s, v)
    \/ \E a \in Attempts, ok \in BOOLEAN : IntentReturn(a, ok)
    \/ \E a \in Attempts, ok \in BOOLEAN : LaunchReturn(a, ok)
    \/ \E a \in Attempts, outcome \in Outcomes : CanOpenReturn(a, outcome)
    \/ \E a \in Attempts, ok \in BOOLEAN : OpenURLReturn(a, ok)
    \/ \E a \in Attempts, outcome \in BrowserOutcomes : BrowserReturn(a, outcome)
    \/ \E url \in FlowUrls : DeepLink(url)
    \/ \E a \in Attempts, s \in Strategies : TimerFire(a, s)

InitApi == FlowInit /\ ParserIdle /\ GeneratorIdle /\ BridgeIdle

SpecApi == InitApi /\ [][NextApi]_vars

\* the same call under the assumption that every platform primitive that was
\* invoked returns or throws and every armed timer fires; no deep link need
\* ever come
Fairness ==
    /\ WF_vars(\E a \in Attempts, outcome \in Outcomes, s \in StateTokens :
                   DetectReturn(a, outcome, s, "v1"))
    /\ WF_vars(\E a \in Attempts, ok \in BOOLEAN : IntentReturn(a, ok))
    /\ WF_vars(\E a \in Attempts, ok \in BOOLEAN : LaunchReturn(a, ok))
    /\ WF_vars(\E a \in Attempts, outcome \in Outcomes : CanOpenReturn(a, outcome))
    /\ WF_vars(\E a \in Attempts, ok \in BOOLEAN : OpenURLReturn(a, ok))
    /\ WF_vars(\E a \in Attempts, outcome \in BrowserOutcomes :
                   BrowserReturn(a, outcome))
    /\ WF_vars(\E a \in Attempts, s \in Strategies : TimerFire(a, s))

\* one call of authenticateWithUAEPass() on any platform, made after the
\* library was configured or without configuration
LiveInit ==
    /\ globalConfig \in {NoConfig} \cup {Config(env) : env \in Environments}
    /\ globalAppSchemes = DEFAULT_APP_SCHEMES
    /\ platformEnv \in PlatformEnvs
    /\ NoAttemptsYet({1})
    /\ HookInit

NextLive ==
    \/ \E a \in Attempts, s \in StateTokens : Start(a, s, "v1")
    \/ \E a \in Attempts, outcome \in Outcomes, s \in StateTokens :
          DetectReturn(a, outcome, s, "v1")
    \/ \E a \in Attempts, ok \in BOOLEAN : IntentReturn(a, ok)
    \/ \E a \in Attempts, ok \in BOOLEAN : LaunchReturn(a, ok)
    \/ \E a \in Attempts, outcome \in Outcomes : CanOpenReturn(a, outcome)
    \/ \E a \in Attempts, ok \in BOOLEAN : OpenURLReturn(a, ok)
    \/ \E a \in Attempts, outcome \in BrowserOutcomes : BrowserReturn(a, outcome)
    \/ \E url \in FlowUrls : DeepLink(url)
    \/ \E a \in Attempts, s \in Strategies : TimerFire(a, s)

InitLive == LiveInit /\ ParserIdle /\ GeneratorIdle /\ BridgeIdle

SpecLive == InitLive /\ [][NextLive]_vars /\ Fairness

\* several calls together: every platform primitive succeeds, the browser
\* session ends dismissed or cancelled, and each call draws its own state token
NextConcurrent ==
    \/ \E a \in Attempts, s \in StateTokens : Start(a, s, "v1")
    \/ \E a \in Attempts, outcome \in {"true", "false"}, s \in StateTokens :
          DetectReturn(a, outcome, s, "v1")
    \/ \E a \in Attempts : IntentReturn(a, TRUE)
    \/ \E a \in Attempts, t \in {"dismiss", "cancel"} :
          BrowserReturn(a, [type |-> t, url |-> NoEvent])
    \/ \E url \in FlowUrls : DeepLink(url)
    \/ \E a \in Attempts, s \in Strategies : TimerFire(a, s)

InitConcurrent == ConcurrentInit /\ ParserIdle /\ GeneratorIdle /\ BridgeIdle

SpecConcurrent == InitConcurrent /\ [][NextConcurrent]_vars

\* several calls of the hook's authenticate() on one hook instance: a call
\* that finds the app hands over to the WebView at once, the others run the
\* browser strategy
NextHooks ==
    \/ \E a \in Attempts, s \in StateTokens : HookAuthenticate(a, s, "v1")
    \/ \E a \in Attempts, outcome \in {"true", "false"}, s \in StateTokens :
          DetectReturn(a, outcome, s, "v1")
    \/ \E a \in Attempts, t \in {"dismiss", "cancel"} :
          BrowserReturn(a, [type |-> t, url |-> NoEvent])
    \/ \E url \in FlowUrls : DeepLink(url)
    \/ \E a \in Attempts : TimerFire(a, "browser")

SpecHooks == InitConcurrent /\ [][NextHooks]_vars

\* Call 1 is authenticateWithUAEPass() on Android with the app detected, whose
\* launch primitives are all unavailable or fail; call 2 is
\* authenticateWithUAEPassBrowser() with call 1's authorization URL, state and
\* verifier, made at the moment call 1 falls back.  From then on both get the
\* same browser-session outcome, the same deep links and their browser timers
\* fire together.
FallbackInit ==
    /\ globalConfig = Config("staging")
    /\ globalAppSchemes = DEFAULT_APP_SCHEMES
    /\ platformEnv \in {e \in PlatformEnvs : e.os = "android" /\ e.module}
    /\ NoAttemptsYet({1, 2})
    /\ HookInit

\* the browser strategy entered by call 2 with call 1's arguments
BrowserTwin(st1, st2) ==
    BrowserStart([st2 EXCEPT !.entry = "authenticateWithUAEPassBrowser",
                             !.sess = [NoSession EXCEPT
                                          !.config = globalConfig,
                                          !.state = st1.sess.state,
                                          !.codeVerifier = st1.sess.codeVerifier,
                                          !.authUrl = st1.sess.authUrl]])

\* canOpenURL answers false or rejects: call 1 falls back, call 2 starts
FallbackAtCanOpen(outcome) ==
    /\ pc[1] = "app_canopen" /\ pc[2] = "idle"
    /\ outcome # "true"
    /\ LET st1 == CanOpenContinue(AttemptState(1), outcome)
           st2 == BrowserTwin(st1, AttemptState(2))
       IN CommitAll(<<st1, st2>>, st1.h)
    /\ UNCHANGED <<configVars, platformEnv, partVars>>

\* openURL rejects: call 1 falls back, call 2 starts
FallbackAtOpenURL ==
    /\ pc[1] = "app_openurl" /\ pc[2] = "idle"
    /\ LET st1 == OpenURLContinue(AttemptState(1), FALSE)
           st2 == BrowserTwin(st1, AttemptState(2))
       IN CommitAll(<<st1, st2>>, st1.h)
    /\ UNCHANGED <<configVars, platformEnv, partVars>>

\* both browser sessions complete with the same outcome
BrowserReturnBoth(outcome) ==
    /\ pc[1] = "br_session" /\ pc[2] = "br_session"
    /\ LET st1 == BrowserContinue(AttemptState(1), session[1], outcome)
           st2 == BrowserContinue(AttemptState(2), session[2], outcome)
       IN CommitAll(<<st1, st2>>, st1.h)
    /\ UNCHANGED <<configVars, platformEnv, partVars>>

\* both browser timers, armed together, fire together
TimerFireBoth ==
    /\ waiters[1]["browser"].timer = "armed" /\ waiters[2]["browser"].timer = "armed"
    /\ waiters[1]["app"].timer # "armed"
    /\ LET st1 == Resume([AttemptState(1) EXCEPT
                             !.w.browser = TimerCallback(waiters[1]["browser"],
                                                         "browser")])
           st2 == Resume([AttemptState(2) EXCEPT
                             !.w.browser = TimerCallback(waiters[2]["browser"],
                                                         "browser")])
       IN CommitAll(<<st1, st2>>, st1.h)
    /\ UNCHANGED <<configVars, platformEnv, partVars>>

NextFallback ==
    \/ \E s \in StateTokens, v \in Verifiers : Start(1, s, v)
    \/ \E s \in StateTokens, v \in Verifiers : DetectReturn(1, "true", s, v)
    \/ IntentReturn(1, FALSE)
    \/ LaunchReturn(1, FALSE)
    \/ CanOpenReturn(1, "true")
    \/ \E outcome \in Outcomes : FallbackAtCanOpen(outcome)
    \/ FallbackAtOpenURL
    \/ \E outcome \in BrowserOutcomes : BrowserReturnBoth(outcome)
    \/ \E url \in FlowUrls : DeepLink(url)
    \/ TimerFire(1, "app")
    \/ TimerFireBoth

InitFallback == FallbackInit /\ ParserIdle /\ GeneratorIdle /\ BridgeIdle

SpecFallback == InitFallback /\ [][NextFallback]_vars

\* one call of generateCodeVerifier()
NextGenerator ==
    \/ \E r \in 0..(RandomResolution - 1) : GenerateStep(r)
    \/ GenerateReturn

InitGenerator == FlowIdle /\ ParserIdle /\ GeneratorIdle /\ BridgeIdle

SpecGenerator == InitGenerator /\ [][NextGenerator]_vars

\* the library is configured and the component is shown with the parameters
\* the hook handed over; the app may have been opened with a deep link
BridgeInit ==
    /\ globalConfig \in {Config(env) : env \in Environments}
    /\ globalAppSchemes = DEFAULT_APP_SCHEMES
    /\ platformEnv = [os |-> "ios", module |-> FALSE, hasIntent |-> FALSE,
                      hasLaunch |-> FALSE]
    /\ NoAttemptsYet({})
    /\ HookInit
    /\ bridgeProps \in
         {[authUrl |-> buildAuthorizationURL(globalConfig.authorizationEndpoint,
                                             globalConfig.clientId,
                                             globalConfig.redirectUri,
                                             globalConfig.scopes,
                                             ACR_MOBILE_ON_DEVICE, s),
           redirectUri |-> globalConfig.redirectUri,
           expectedState |-> s] : s \in {"s1"}}
    /\ savedUrls = NoSavedUrls
    /\ waitingForCallback = FALSE
    /\ currentUrl = UrlText(bridgeProps.authUrl)
    /\ initialUrl \in {NoUrl, ResumeLink(RedirectScheme, PlainText(ForeignText))}
    /\ initialUrlThen = <<[savedUrls |-> NoSavedUrls, waitingForCallback |-> FALSE]>>
    /\ opened = <<>>
    /\ bridgeCallbacks = <<>>
    /\ lastEvent = NoBridgeEvent

\* one rendering session of UAEPassWebViewAuth
NextBridge ==
    \/ \E url \in IdpUrls \cup PageUrls : ShouldStartLoad(url)
    \/ \E url \in NavigationUrls : NavigationStateChange(url)
    \/ \E url \in BridgeDeepLinks : BridgeDeepLink(url)
    \/ InitialUrlResolved
    \/ \E i \in 1..MaxBridgeEvents : OpenURLRejected(i)
    \/ \E url \in {Url("https", "idshub/login", <<>>), Url("uaepass", IdpPath, <<>>)},
           code \in {-10, -2} : WebViewError(url, code)
    \/ RequestClose

InitBridge == BridgeInit /\ ParserIdle /\ GeneratorIdle

SpecBridge == InitBridge /\ [][NextBridge]_vars

ParserNext == ParseCall

InitParser == ParserInit /\ FlowIdle /\ GeneratorIdle /\ BridgeIdle

SpecParser == InitParser /\ [][ParserNext]_vars

-----------------------------------------------------------------------------
(* Claims about the callback parser (SpecParser) *)

\* what a callback URL carries, read off its query string
HasParam(url, key) == \E i \in 1..Len(url.query) : url.query[i].key = key

FirstIndex(url, key) ==
    CHOOSE i \in 1..Len(url.query) :
        /\ url.query[i].key = key
        /\ \A j \in 1..(i - 1) : url.query[j].key # key

ParamOf(url, key) ==
    IF HasParam(url, key) THEN url.query[FirstIndex(url, key)].value ELSE NULL

Parsed == pResult # NoResult /\ pUrl.wellFormed

\* C1: a callback URL without an `error` parameter whose `state` is not the
\* expected state (or is missing) is answered by the invalid-state failure,
\* never by a success, also when it carries a non-empty `code`.
C1_StateMismatchFails ==
    (Parsed /\ ~HasParam(pUrl, "error") /\ ParamOf(pUrl, "state") # pExpected)
        => (pResult = Failure(MsgInvalidState) /\ ~pResult.success)

C1_Witness ==
    /\ Parsed
    /\ ~HasParam(pUrl, "error")
    /\ HasParam(pUrl, "state")
    /\ ParamOf(pUrl, "state") # pExpected
    /\ ParamOf(pUrl, "code") = "s1"
    /\ pResult.error = MsgInvalidState

\* C2 as stated: whenever `error` is present, the result is a failure whose
\* message is `error_description` when present and otherwise `error`.
C2_ErrorPresentFails ==
    (Parsed /\ HasParam(pUrl, "error"))
        => pResult = Failure(IF HasParam(pUrl, "error_description")
                             THEN ParamOf(pUrl, "error_description")
                             ELSE ParamOf(pUrl, "error"))

\* C2, amended: whenever `error` is present and not empty, the result is a
\* failure whose message is `error_description` when that is present and not
\* empty and otherwise `error`, whatever `state` and `code` are.
C2_NonEmptyErrorFails ==
    (Parsed /\ ParamOf(pUrl, "error") \notin {NULL, ""})
        => pResult = Failure(IF ParamOf(pUrl, "error_description") \notin {NULL, ""}
                             THEN ParamOf(pUrl, "error_description")
                             ELSE ParamOf(pUrl, "error"))

C2_Witness ==
    /\ Parsed
    /\ ParamOf(pUrl, "error") = "s2"
    /\ ParamOf(pUrl, "error_description") = "s1"
    /\ ParamOf(pUrl, "state") \notin {NULL, pExpected}
    /\ pResult.error = "s1"

\* C3: a callback URL without `error`, with `state` equal to the expected
\* state and a non-empty `code` is answered by a success carrying exactly
\* that code and the returned state.
C3_ValidCallbackSucceeds ==
    (Parsed /\ ~HasParam(pUrl, "error") /\ ParamOf(pUrl, "state") = pExpected
            /\ ParamOf(pUrl, "code") \notin {NULL, ""})
        => /\ pResult.success
           /\ pResult.authorizationCode = ParamOf(pUrl, "code")
           /\ pResult.state = ParamOf(pUrl, "state")
           /\ pResult.error = NULL

C3_Witness ==
    /\ Parsed
    /\ ~HasParam(pUrl, "error")
    /\ ParamOf(pUrl, "state") = pExpected
    /\ ParamOf(pUrl, "code") \notin {NULL, "", pExpected}
    /\ pResult.success

\* C4: a callback URL without `error`, with `state` equal to the expected
\* state and with `code` missing or empty is answered by the
\* no-authorization-code failure.
C4_MissingCodeFails ==
    (Parsed /\ ~HasParam(pUrl, "error") /\ ParamOf(pUrl, "state") = pExpected
            /\ ParamOf(pUrl, "code") \in {NULL, ""})
        => pResult = Failure(MsgNoCode)

C4_Witness ==
    /\ Parsed
    /\ ~HasParam(pUrl, "error")
    /\ ParamOf(pUrl, "state") = pExpected
    /\ ParamOf(pUrl, "code") = ""
    /\ pResult.error = MsgNoCode

-----------------------------------------------------------------------------
(* Claims about the strategies (Spec, SpecConcurrent) *)

InTrace(a, what) == \E i \in 1..Len(trace[a]) : trace[a][i] = what

\* one of the two strategies was entered / the call has its result
Entered(a, strategy) ==
    InTrace(a, IF strategy = "app" THEN "addEventListener:app"
               ELSE "addEventListener:browser")

Resolved(a) == returned[a] # NoResult

C6_Demultiplexed ==
    [][\A a, b \in Attempts : \A sa, sb \in Strategies :
         (/\ a # b
          /\ session[a].state # session[b].state
          /\ waiters[a][sa].sub = "registered"
          /\ waiters[b][sb].sub = "registered"
          /\ waiters'[a][sa].ev = CallbackUrl(session[a].state))
         => waiters'[b][sb] = waiters[b][sb]]_vars

\* C7 (native-app strategy, once a launch primitive has launched): the
\* pending result is the parse of the matching event the listener saw if that
\* came before the timer, and the timeout failure with the listener
\* unregistered if the timer came first; after the timer the listener sees
\* nothing more and the pending result stays; the strategy returns the
\* pending result.
C7_ListenerVersusTimeout ==
    /\ [](\A a \in Attempts :
            LET w == waiters[a]["app"] IN
            /\ w.ev # NoEvent
                 => /\ IncludesRedirectUri(w.ev) \/ IncludesCodeMarker(w.ev)
                    /\ w.promise = WithVerifier(
                           parseCallbackURL(w.ev, session[a].state),
                           session[a].codeVerifier)
            /\ (w.ev = NoEvent /\ w.timer = "fired")
                 => /\ w.promise = Failure(MsgTimeoutApp)
                    /\ w.sub = "removed"
            /\ (pc[a] = "done" /\ Entered(a, "app") /\ ~Entered(a, "browser"))
                 => returned[a] = w.promise)
    /\ [][\A a \in Attempts :
            waiters[a]["app"].timer = "fired"
                => /\ waiters'[a]["app"] = waiters[a]["app"]
                   /\ waiters[a]["app"].sub = "removed"]_vars

\* the listener won, the attempt returned its parse, and the timer fired later
C7_Witness ==
    \E a \in Attempts :
        /\ pc[a] = "done"
        /\ ~Entered(a, "browser")
        /\ waiters[a]["app"].ev = CallbackUrl(session[a].state)
        /\ returned[a].success
        /\ waiters[a]["app"].timer = "fired"

LaunchPrimitives == {"openUAEPassWithIntent", "launchUAEPassApp", "canOpenURL", "openURL"}

\* C8: in either strategy the deep-link listener is registered before the
\* strategy's first launch primitive is invoked.
C8_ListenerThenLaunch ==
    \A a \in Attempts : \A i \in 1..Len(trace[a]) :
        /\ trace[a][i] \in LaunchPrimitives
             => \E j \in 1..(i - 1) : trace[a][j] = "addEventListener:app"
        /\ trace[a][i] = "openAuthSessionAsync"
             => \E j \in 1..(i - 1) : trace[a][j] = "addEventListener:browser"

\* an attempt that went through the native-app chain and then the browser
C8_Witness ==
    \E a \in Attempts :
        /\ InTrace(a, "openUAEPassWithIntent")
        /\ InTrace(a, "openURL")
        /\ InTrace(a, "openAuthSessionAsync")

\* C9 as stated: when the listener of the browser strategy got a callback
\* while the browser session was still open, the attempt's result is that
\* callback's result, whatever the session reports afterwards.
C9_ListenerBeatsSession ==
    [][\A a \in Attempts :
         (/\ pc[a] = "br_session"
          /\ waiters[a]["browser"].ev # NoEvent
          /\ pc'[a] = "done")
         => returned'[a] = waiters[a]["browser"].promise]_vars

\* C10 as stated: once an attempt has resolved, and once the native-app
\* strategy was left for the browser strategy, no listener the attempt or the
\* abandoned strategy registered is still registered.
C10_ListenersTornDown ==
    \A a \in Attempts :
        /\ pc[a] = "done" => \A s \in Strategies : waiters[a][s].sub # "registered"
        /\ Entered(a, "browser") => waiters[a]["app"].sub # "registered"

\* C11 as stated: when the browser session reports the user-cancelled kind,
\* the browser strategy returns the user-cancelled failure at once and the
\* call's deep-link listener is then no longer registered.
C11_CancelTearsDown ==
    [][\A a \in Attempts :
         (pc[a] = "br_session" /\ pc'[a] = "done"
            /\ returned'[a] = Failure(MsgUserCancelled))
         => waiters'[a]["browser"].sub # "registered"]_vars

\* what authenticateWithUAEPass makes of its strategy's outcome
ThroughAuthenticate(ret, err) ==
    IF err # NULL THEN FailureWithDetails(err, "Error") ELSE ret

\* C12: when every launch primitive of the native-app strategy is
\* unavailable or fails, the native-app strategy's outcome is exactly the
\* browser strategy's for the same authorization URL, state and verifier
\* under the same browser-session outcome, deep links and timer: the two stay
\* at the same point with the same pending result, and complete together
\* with the same result.
C12_FallbackEquivalence ==
    pc[2] # "idle"
        => /\ session[2].authUrl = session[1].authUrl
           /\ waiters[1]["browser"] = waiters[2]["browser"]
           /\ (pc[1] = pc[2]) \/ (pc[1] = "done" /\ pc[2] = "rejected")
           /\ returned[1] = ThroughAuthenticate(returned[2], thrown[2])

\* the callback came while the chain was still trying to launch (the
\* native-app listener took it), every launch failed, and both strategies
\* then ended with the same result from a later callback
C12_Witness ==
    /\ pc[1] = "done" /\ pc[2] = "done"
    /\ InTrace(1, "openUAEPassWithIntent") /\ InTrace(1, "openURL")
    /\ waiters[1]["app"].ev # NoEvent
    /\ returned[1].success
    /\ returned[2] = returned[1]

\* the position of a call in the trace (0 when it was not made)
Pos(a, what) ==
    IF InTrace(a, what) THEN CHOOSE i \in 1..Len(trace[a]) : trace[a][i] = what ELSE 0

Times(a, what) == Cardinality({i \in 1..Len(trace[a]) : trace[a][i] = what})

\* the native-app chain in its order, ending with the entry to the browser
Chain == <<"openUAEPassWithIntent", "launchUAEPassApp", "canOpenURL", "openURL",
           "addEventListener:browser">>

\* whether the platform offers the step (canOpenURL always; openURL and the
\* browser hang on what earlier steps answer, not on the platform)
Available(step) ==
    IF step = "openUAEPassWithIntent"
    THEN platformEnv.os = "android" /\ platformEnv.module /\ platformEnv.hasIntent
    ELSE IF step = "launchUAEPassApp"
    THEN platformEnv.os = "android" /\ platformEnv.module /\ platformEnv.hasLaunch
    ELSE step = "canOpenURL"

ChainPcs == {"app_intent", "app_launch", "app_canopen", "app_openurl"}

\* C13: the native-app strategy invokes its launch primitives in the order
\* open-with-intent, launch-directly, canOpenURL-then-openURL, each at most
\* once; a later one is invoked, and the browser strategy entered, only in
\* the step in which the one before it fails (every available earlier one
\* having been invoked); and once a primitive has launched (the call waits
\* for its pending result or is done) nothing more is invoked.
C13_OrderedChain ==
    /\ [](\A a \in Attempts : Entered(a, "app") =>
            /\ \A i \in 1..5 : Times(a, Chain[i]) <= 1
            /\ \A i, j \in 1..5 :
                  (i < j /\ InTrace(a, Chain[i]) /\ InTrace(a, Chain[j]))
                      => Pos(a, Chain[i]) < Pos(a, Chain[j])
            /\ \A i, j \in 1..5 :
                  (i < j /\ InTrace(a, Chain[j]) /\ Available(Chain[i]))
                      => InTrace(a, Chain[i])
            /\ InTrace(a, "openURL") => InTrace(a, "canOpenURL"))
    /\ [][\A a \in Attempts : Entered(a, "app") =>
            /\ pc[a] \in {"app_await", "done"} => trace'[a] = trace[a]
            /\ trace'[a] # trace[a]
                  => /\ pc[a] \in ChainPcs
                     /\ pc'[a] \in (ChainPcs \ {pc[a]}) \cup {"br_session"}
            /\ (pc[a] \in ChainPcs /\ pc'[a] \in {"app_await", "done"})
                  => trace'[a] = trace[a]]_vars

\* open-with-intent failed, launch-directly launched, and the call ended with
\* the callback's result without canOpenURL, openURL or the browser
C13_Witness ==
    \E a \in Attempts :
        /\ pc[a] = "done"
        /\ returned[a].success
        /\ Pos(a, "openUAEPassWithIntent") > 0
        /\ Pos(a, "launchUAEPassApp") > Pos(a, "openUAEPassWithIntent")
        /\ ~InTrace(a, "canOpenURL")
        /\ ~Entered(a, "browser")

\* the strategy authenticateWithUAEPass itself entered: the browser strategy
\* entered after canOpenURL is the native-app strategy's fallback
EnteredByAuthenticate(a) ==
    IF Entered(a, "app") THEN "app"
    ELSE IF Entered(a, "browser") THEN "browser"
    ELSE "none"

\* the call's detection has answered and the call has run on
Detected(a) == installed[a] # "none" /\ pc[a] # "detect"

\* C14: once detection has answered, authenticate() (which fails at once when
\* the library is not configured, C19) has entered the native-app strategy if
\* detection returned true on Android and the browser strategy otherwise,
\* and only that one: the browser strategy comes after the native-app
\* strategy only as its fallback.
C14_PathSelection ==
    \A a \in Attempts :
        (entry[a] = "authenticateWithUAEPass" /\ Detected(a)
            /\ returned[a].error # MsgNotConfigured)
        => /\ EnteredByAuthenticate(a) =
                 IF installed[a] = "true" /\ platformEnv.os = "android"
                 THEN "app" ELSE "browser"
           /\ (Entered(a, "app") /\ Entered(a, "browser"))
                 => /\ InTrace(a, "canOpenURL")
                    /\ Pos(a, "canOpenURL") < Pos(a, "addEventListener:browser")

\* the app is detected on iOS and the browser strategy is taken
C14_Witness ==
    \E a \in Attempts :
        /\ entry[a] = "authenticateWithUAEPass"
        /\ platformEnv.os = "ios"
        /\ installed[a] = "true"
        /\ Entered(a, "browser") /\ ~Entered(a, "app")
        /\ pc[a] = "done"

\* the ACR level an authorization URL requests
AcrOf(url) == SearchParamsGet(url.query, "acr_values")

\* C15 as stated: whenever authenticate() takes the browser strategy the
\* authorization URL requests the low ACR level, and the mobile-on-device
\* level is requested only when the native-app strategy is taken.
C15_AcrFollowsPath ==
    \A a \in Attempts :
        (entry[a] = "authenticateWithUAEPass" /\ EnteredByAuthenticate(a) # "none")
        => /\ EnteredByAuthenticate(a) = "browser"
                 => AcrOf(session[a].authUrl) = ACR_LOW
           /\ AcrOf(session[a].authUrl) = ACR_MOBILE_ON_DEVICE
                 => EnteredByAuthenticate(a) = "app"

\* C16: prepareAuth() returns useWebView = true exactly when detection
\* returned true, the mobile-on-device ACR when it returned true and the low
\* ACR when it returned false (also inside the URL), and the state it returns
\* is the state embedded in the authorization URL it returns.
C16_PrepareAuth ==
    \A a \in Attempts :
        (entry[a] = "prepareUAEPassAuth" /\ pc[a] = "done")
        => /\ prepared[a].useWebView <=> (installed[a] = "true")
           /\ installed[a] = "true" => prepared[a].acrValue = ACR_MOBILE_ON_DEVICE
           /\ installed[a] = "false" => prepared[a].acrValue = ACR_LOW
           /\ AcrOf(prepared[a].authUrl) = prepared[a].acrValue
           /\ prepared[a].state \in StateTokens
           /\ SearchParamsGet(prepared[a].authUrl.query, "state") = prepared[a].state

\* Scenario B on iOS
C16_Witness ==
    \E a \in Attempts :
        /\ entry[a] = "prepareUAEPassAuth" /\ pc[a] = "done"
        /\ InTrace(a, "canOpenURL:detect")
        /\ installed[a] = "true"
        /\ prepared[a].useWebView
        /\ prepared[a].acrValue = ACR_MOBILE_ON_DEVICE

\* the three shapes of an AuthResult
SuccessWithCode(r) ==
    /\ r.success /\ r.authorizationCode \notin {NULL, ""}
    /\ ~r.details.useWebView /\ r.error = NULL

DeferredToWebView(r) ==
    /\ r.success /\ r.authorizationCode = NULL
    /\ r.details.useWebView /\ r.error = NULL

FailureWithMessage(r) ==
    /\ ~r.success /\ r.authorizationCode = NULL
    /\ ~r.details.useWebView /\ r.error \notin {NULL, ""}

\* C17: every result authenticate() returns (the service function and the
\* hook, whose authResult state holds it too) is a success with code, a
\* success deferred to the WebView or a failure; none carries both a code
\* and the deferred marker and no failure carries a code.
C17_ResultShape ==
    LET Shaped(r) ==
          /\ SuccessWithCode(r) \/ DeferredToWebView(r) \/ FailureWithMessage(r)
          /\ ~(r.authorizationCode # NULL /\ r.details.useWebView)
          /\ ~r.success => r.authorizationCode = NULL
    IN /\ \A a \in Attempts :
            (entry[a] \in {"authenticateWithUAEPass", "useUAEPassAuth.authenticate"}
                /\ pc[a] = "done")
            => Shaped(returned[a])
       /\ authResult # NoResult => Shaped(authResult)

\* the hook handed over to the WebView
C17_Witness ==
    \E a \in Attempts :
        /\ entry[a] = "useUAEPassAuth.authenticate" /\ pc[a] = "done"
        /\ DeferredToWebView(returned[a])
        /\ authResult = returned[a]

\* C18 as stated: no fault of a platform primitive leaves the browser
\* strategy, the native-app strategy or authenticate(): none of them rejects
\* (a call made before configureUAEPass() is C19's case).
C18_NoFaultEscapes ==
    \A a \in Attempts :
        entry[a] \in {"authenticateWithUAEPass", "authenticateWithUAEPassBrowser"}
            => thrown[a] \in {NULL, MsgNotConfigured}

\* C19 as stated: while configureUAEPass() has never been called, every call
\* of a flow operation reports the not-configured error, and none returns a
\* value, registers a listener, arms a timer or invokes a primitive.
C19_FailFastUnconfigured ==
    \A a \in Attempts :
        (~globalConfig.configured /\ pc[a] # "idle")
        => /\ returned[a].error = MsgNotConfigured \/ thrown[a] = MsgNotConfigured
           /\ trace[a] = <<>>
           /\ \A s \in Strategies : waiters[a][s] = NoWaiter
           /\ installed[a] = "none" \/ entry[a] # "isUAEPassAppInstalled"
           /\ prepared[a] = NoParams

\* C20 as stated: after the first configureUAEPass() call neither the
\* configuration nor the app-scheme table changes.
C20_WriteOnceConfig ==
    [][globalConfig.configured
         => /\ globalConfig' = globalConfig
            /\ globalAppSchemes' = globalAppSchemes]_vars

\* C21: isAppInstalled() never throws, and it returns false whenever its
\* platform primitive throws or rejects and whenever the native detection
\* module is absent on Android (it then calls no primitive); a caller that
\* selects a path on it then takes the browser strategy.
C21_DetectorFailSafe ==
    \A a \in Attempts :
        /\ entry[a] = "isUAEPassAppInstalled" => thrown[a] = NULL /\ pc[a] # "rejected"
        /\ (detectOutcome[a] = "throw" /\ pc[a] # "detect") => installed[a] = "false"
        /\ (platformEnv.os = "android" /\ ~platformEnv.module /\ installed[a] # "none")
              => installed[a] = "false" /\ detectOutcome[a] = "none"
        /\ (entry[a] = "authenticateWithUAEPass" /\ installed[a] = "false"
              /\ globalConfig.configured /\ pc[a] # "done")
              => Entered(a, "browser") /\ ~Entered(a, "app")

\* the primitive rejected and a direct call of the detector returned false
C21_Witness ==
    \E a \in Attempts :
        /\ entry[a] = "isUAEPassAppInstalled" /\ pc[a] = "done"
        /\ detectOutcome[a] = "throw"
        /\ installed[a] = "false"
        /\ thrown[a] = NULL

-----------------------------------------------------------------------------
(* Claims about the WebView bridge (SpecBridge) *)

\* urlObj.searchParams.get(upper) || urlObj.searchParams.get(lower)
CarriedText(url, upper, lower) ==
    IF TextTruthy(TextParamsGet(url.query, upper))
    THEN TextParamsGet(url.query, upper)
    ELSE TextParamsGet(url.query, lower)

\* a success or failure URL that is a URL of the host app's scheme
PointsIntoHost(t) == t.kind = "url" /\ t.url.scheme = RedirectScheme

\* t is the host app's resume link around the text inner
IsResumeLinkTo(t, inner) == t = UrlText(ResumeLink(RedirectScheme, inner))

\* an IdP deep link with both continuation URLs, not yet rewritten
CarriesBoth(url) ==
    /\ url.wellFormed
    /\ TextTruthy(CarriedText(url, "successURL", "successurl"))
    /\ TextTruthy(CarriedText(url, "failureURL", "failureurl"))
    /\ ~PointsIntoHost(CarriedText(url, "successURL", "successurl"))
    /\ ~PointsIntoHost(CarriedText(url, "failureURL", "failureurl"))

\* C22: when handleShouldStartLoadWithRequest gets an IdP-scheme URL whose
\* query reads successURL = A and failureURL = B (under either spelling),
\* neither of them a URL of the host scheme, then the saved URLs are A and B,
\* one more URL is handed to Linking.openURL and its success and failure
\* parameters are the host app's resume links, waitingForCallback is true
\* and the handler returns false.
C22_BridgeRewrite ==
    [][\A url \in IdpUrls :
          (ShouldStartLoad(url) /\ CarriesBoth(url))
          => LET A == CarriedText(url, "successURL", "successurl")
                 B == CarriedText(url, "failureURL", "failureurl")
                 openUrl == opened'[Len(opened')].url
             IN /\ savedUrls' = [successURL |-> A.text, failureURL |-> B.text,
                                 originalUrl |-> url]
                /\ Len(opened') = Len(opened) + 1
                /\ IsResumeLinkTo(CarriedText(openUrl, "successURL", "successurl"), A)
                /\ IsResumeLinkTo(CarriedText(openUrl, "failureURL", "failureurl"), B)
                /\ waitingForCallback'
                /\ lastEvent'.returned = "false"]_vars

\* url starts with the redirect URI, or contains it without its scheme
MatchesConfiguredRedirect(url) ==
    \/ url.scheme = RedirectScheme /\ url.path = RedirectPath
    \/ url.path \in {RedirectPath, ResumePath}

\* the handler returned true and did nothing else
LoadAllowedUntouched ==
    /\ lastEvent'.returned = "true"
    /\ UNCHANGED <<opened, savedUrls, waitingForCallback, currentUrl,
                   bridgeCallbacks, initialUrlThen>>

\* C23 as stated: handleShouldStartLoadWithRequest returns false for every URL
\* of the environment's IdP scheme and for every URL matching the redirect
\* URI; for every other URL it returns true, hands nothing to
\* Linking.openURL, changes no state and invokes no callback.
C23_VetoEnvSchemeOnly ==
    [][\A url \in IdpUrls \cup PageUrls :
          ShouldStartLoad(url)
          => IF url.scheme = UAE_PASS_SCHEME(globalConfig.environment)
                \/ MatchesConfiguredRedirect(url)
             THEN lastEvent'.returned = "false"
             ELSE LoadAllowedUntouched]_vars

\* C23: handleShouldStartLoadWithRequest returns false for every URL of
\* either IdP scheme (uaepass or uaepassstg, in both environments and on
\* every branch, the catch included) and for every URL matching the redirect
\* URI; for every other URL, and only for those, it returns true, hands
\* nothing to Linking.openURL, changes no state and invokes no callback.
C23_NavigationDecision ==
    [][\A url \in IdpUrls \cup PageUrls :
          ShouldStartLoad(url)
          => IF url.scheme \in {"uaepass", "uaepassstg"}
                \/ MatchesConfiguredRedirect(url)
             THEN lastEvent'.returned = "false"
             ELSE LoadAllowedUntouched]_vars

\* an IdP deep link of the other environment's scheme was vetoed and handed
\* to the opener
C23_Witness ==
    /\ lastEvent.handler = "handleShouldStartLoadWithRequest"
    /\ lastEvent.returned = "false"
    /\ opened # <<>>
    /\ opened[Len(opened)].url.scheme # UAE_PASS_SCHEME(globalConfig.environment)

\* C24: in the staging environment every URL handed to Linking.openURL, on
\* the already-rewritten, rewrite, no-parameters and catch branches, has the
\* scheme uaepassstg, and none has the production scheme uaepass.
C24_StagingSchemeAtOpener ==
    globalConfig.environment = "staging"
    => \A i \in 1..Len(opened) :
          opened[i].url.scheme = "uaepassstg" /\ opened[i].url.scheme # "uaepass"

\* in staging a production-scheme deep link was rewritten and handed over
C24_Witness ==
    /\ globalConfig.environment = "staging"
    /\ savedUrls # NoSavedUrls
    /\ savedUrls.originalUrl.scheme = "uaepass"
    /\ opened # <<>>
    /\ opened[Len(opened)].url.scheme = "uaepassstg"

\* a deep link to the host app's resume path that carries a url parameter
IsResumeDeepLink(url) ==
    /\ url.wellFormed
    /\ url.scheme = RedirectScheme
    /\ url.path = ResumePath
    /\ TextTruthy(TextParamsGet(url.query, "url"))

\* C25: whenever waitingForCallback is true (set by the rewrite branch or by
\* the already-rewritten branch) and handleDeepLink receives a resume link of
\* the host app that carries a url parameter, currentUrl becomes the value
\* of that parameter and waitingForCallback becomes false.
C25_BridgeResume ==
    [][\A url \in BridgeDeepLinks :
          (BridgeDeepLink(url) /\ waitingForCallback /\ IsResumeDeepLink(url))
          => /\ currentUrl' = TextParamsGet(url.query, "url")
             /\ ~waitingForCallback']_vars

\* C26: for every URL matching the redirect URI, handleShouldStartLoadWithRequest
\* invokes exactly one callback: onSuccess(code, state) exactly when
\* parseCallbackURL returns success for the same URL and expected state, with
\* the same code and state, and onError otherwise, decided in the same order
\* (error, then state, then code: the message is the parser's, the state
\* mismatch being reported under the bridge's own wording); onSuccess is
\* never invoked for a state that differs from expectedState.
C26_BridgeAgreesWithParser ==
    [][\A url \in PageUrls :
          (ShouldStartLoad(url) /\ MatchesConfiguredRedirect(url))
          => LET r == parseCallbackURL(url, bridgeProps.expectedState)
                 cb == bridgeCallbacks'[Len(bridgeCallbacks')]
             IN /\ Len(bridgeCallbacks') = Len(bridgeCallbacks) + 1
                /\ (cb.name = "onSuccess") = r.success
                /\ r.success => cb = OnSuccess(r.authorizationCode, r.state)
                /\ ~r.success =>
                     cb = OnError(IF r.error = MsgInvalidState
                                  THEN MsgInvalidStateCsrf ELSE r.error)
                /\ cb.name = "onSuccess" =>
                     /\ cb.state = bridgeProps.expectedState
                     /\ SearchParamsGet(url.query, "state") = bridgeProps.expectedState
                /\ lastEvent'.returned = "false"]_vars

\* a redirect with the expected state was reported as a success
C26_Witness ==
    /\ lastEvent = [n |-> 1, handler |-> "handleShouldStartLoadWithRequest",
                    returned |-> "false"]
    /\ bridgeCallbacks = <<OnSuccess("c1", bridgeProps.expectedState)>>

-----------------------------------------------------------------------------
(* Claims about the generators (SpecGenerator) *)

\* the kinds of character of the PKCE unreserved set:
\* ALPHA / DIGIT / "-" / "." / "_" / "~"
UnreservedKinds == {"ALPHA", "DIGIT", "-", ".", "_", "~"}

\* C27: every value generateCodeVerifier returns is 43 to 128 characters
\* long and holds only letters, digits, "-", ".", "_" and "~".
C27_VerifierFormat ==
    genReturned # NoVerifier
    => /\ genReturned.length \in 43..128
       /\ genReturned.kinds \subseteq UnreservedKinds

\* a verifier of 128 characters with every kind of character was returned
C27_Witness ==
    /\ genReturned # NoVerifier
    /\ genReturned.length = VerifierLength
    /\ genReturned.kinds = UnreservedKinds

-----------------------------------------------------------------------------
(* Claims about the hook (SpecApi) *)

\* the option callbacks the hook invoked for call a, in order
CallbacksOf(a) ==
    SelectSeq(callbacks, LAMBDA c : c.call = a)

\* C28: when WebBrowser.openAuthSessionAsync reports {type: 'cancel'} to a
\* call of the hook's authenticate(), the call returns a failure and invokes
\* onCancel; over its whole life, the call invokes no other option callback.
C28_CancelIsNotError ==
    [][\A a \in Attempts :
          /\ (BrowserReturn(a, [type |-> "cancel", url |-> NoEvent])
                /\ entry[a] = "useUAEPassAuth.authenticate")
             => /\ pc'[a] = "done"
                /\ ~returned'[a].success
                /\ CallbacksOf(a) = <<>>
                /\ callbacks' = Append(callbacks, [call |-> a, name |-> "onCancel"])
          /\ (entry[a] = "useUAEPassAuth.authenticate" /\ pc[a] = "done")
             => CallbacksOf(a)' = CallbacksOf(a)]_vars

\* a hook call ended by the user's cancellation
C28_Witness ==
    \E a \in Attempts :
        /\ entry[a] = "useUAEPassAuth.authenticate"
        /\ pc[a] = "done"
        /\ returned[a] = Failure(MsgUserCancelled)
        /\ CallbacksOf(a) = <<[call |-> a, name |-> "onCancel"]>>

\* the call a as a direct call of authenticateWithUAEPassBrowser
AsStrategyCall(a) ==
    [AttemptState(a) EXCEPT !.entry = "authenticateWithUAEPassBrowser"]

\* the hook call a makes the step the browser strategy st makes: it goes on
\* waiting where the strategy does, returns the result the strategy returns,
\* and turns an error the strategy throws into a failure with its message
HookFollows(a, st) ==
    IF st.pc = "done" THEN pc'[a] = "done" /\ returned'[a] = st.ret
    ELSE IF st.pc = "rejected"
    THEN pc'[a] = "done" /\ returned'[a] = Failure(st.thrown)
    ELSE pc'[a] = st.pc /\ returned'[a] = NoResult

\* a hook call whose detection has answered
HookDetected(a, answer) ==
    /\ entry[a] = "useUAEPassAuth.authenticate"
    /\ installed[a] = answer
    /\ pc[a] # "detect"

\* C29: when isUAEPassAppInstalled() returned true, the hook's authenticate()
\* has returned a success without code whose details carry useWebView true
\* and an expectedState equal to the state parameter of details.authUrl, has
\* invoked onSuccess, and has neither opened a browser session nor
\* registered a deep-link listener; when it returned false the call runs the
\* browser strategy and nothing else, step for step, and returns the result
\* the strategy returns.
C29_HookPathSplit ==
    [][\A a \in Attempts :
          /\ HookDetected(a, "true")'
             => /\ pc'[a] = "done"
                /\ DeferredToWebView(returned'[a])
                /\ returned'[a].details.expectedState
                     = SearchParamsGet(returned'[a].details.authUrl.query, "state")
                /\ CallbacksOf(a)' = <<[call |-> a, name |-> "onSuccess"]>>
                /\ ~InTrace(a, "openAuthSessionAsync")'
                /\ ~Entered(a, "browser")' /\ ~Entered(a, "app")'
                /\ \A s \in Strategies : waiters'[a][s] = NoWaiter
          /\ HookDetected(a, "false")'
             => /\ Entered(a, "browser")' /\ ~Entered(a, "app")'
                /\ InTrace(a, "openAuthSessionAsync")'
                /\ pc'[a] \in {"br_session", "br_await", "done"}
          /\ HookDetected(a, "false")
             => /\ \A o \in BrowserOutcomes :
                     BrowserReturn(a, o)
                     => HookFollows(a, BrowserContinue(AsStrategyCall(a), session[a], o))
                /\ \A url \in FlowUrls :
                     DeepLink(url)
                     => HookFollows(a, Resume([AsStrategyCall(a) EXCEPT
                                        !.w = [s \in Strategies |->
                                                 Deliver(waiters[a][s], s, url,
                                                         session[a])]]))
                /\ \A s \in Strategies :
                     TimerFire(a, s)
                     => HookFollows(a, Resume([AsStrategyCall(a) EXCEPT
                                        !.w[s] = TimerCallback(waiters[a][s], s)]))]_vars

\* a hook call deferred to the WebView without having touched the browser
C29_Witness ==
    \E a \in Attempts :
        /\ HookDetected(a, "true")
        /\ pc[a] = "done"
        /\ DeferredToWebView(returned[a])
        /\ trace[a] = <<DetectionPrimitive>>

-----------------------------------------------------------------------------
(* Claims about the browser strategy's listener (Spec) *)

\* C30: the deep-link listener of the browser strategy resolves the pending
\* result only for a URL that contains the redirect URI or a code= marker, as
\* the native-app strategy's listener does: a deep link that contains
\* neither leaves the listener registered and the pending result unsettled.
C30_BrowserListenerFilter ==
    [][\A a \in Attempts, url \in FlowUrls :
          (DeepLink(url)
             /\ waiters[a]["browser"].sub = "registered"
             /\ ~(IncludesRedirectUri(url) \/ IncludesCodeMarker(url)))
          => /\ waiters'[a]["browser"].sub = "registered"
             /\ waiters'[a]["browser"].promise = waiters[a]["browser"].promise]_vars

-----------------------------------------------------------------------------
(* Claims about the outcomes of the browser session and the timers (Spec) *)

\* what the browser strategy's listener resolves the pending result with
ListenerResult(a, url) ==
    WithVerifier(parseCallbackURL(url, session[a].state), session[a].codeVerifier)

\* the session outcomes that are neither a success with a URL nor a cancel
AwaitedOutcomes ==
    {o \in BrowserOutcomes :
        o.type \in {"dismiss", "opened"} \/ (o.type = "success" /\ o.url = NoEvent)}

\* C31: when openAuthSessionAsync completes dismissed, or with a kind that is
\* neither success with a URL nor cancel, the browser strategy returns what
\* settled authCodePromise first: at once when the listener or the timer had
\* already settled it before the session returned, and otherwise at the
\* first deep link or at the timeout, whichever comes first.
C31_DismissAwaitsListener ==
    [][\A a \in Attempts :
          /\ \A o \in AwaitedOutcomes :
                BrowserReturn(a, o)
                => IF waiters[a]["browser"].promise # NoResult
                   THEN pc'[a] = "done"
                        /\ returned'[a] = waiters[a]["browser"].promise
                   ELSE pc'[a] = "br_await" /\ returned'[a] = NoResult
          /\ pc[a] = "br_await"
             => /\ waiters[a]["browser"].promise = NoResult
                /\ \A url \in FlowUrls :
                      DeepLink(url)
                      => IF waiters[a]["browser"].sub = "registered"
                         THEN pc'[a] = "done"
                              /\ returned'[a] = ListenerResult(a, url)
                         ELSE pc'[a] = "br_await"
                /\ TimerFire(a, "browser")
                   => pc'[a] = "done" /\ returned'[a] = Failure(MsgTimeoutBrowser)
          /\ waiters[a]["browser"].promise # NoResult
             => waiters'[a]["browser"].promise = waiters[a]["browser"].promise]_vars

\* the deep link came while the session was open, the session was then
\* dismissed, and the listener's result was returned
C31_Witness ==
    \E a \in Attempts :
        /\ pc[a] = "done"
        /\ waiters[a]["browser"].ev \in {CallbackUrl(s) : s \in StateTokens}
        /\ returned[a] = waiters[a]["browser"].promise
        /\ returned[a].success

\* C32: when openAuthSessionAsync completes with the success kind and a URL,
\* the browser strategy returns at once what parseCallbackURL gives for that
\* URL and the attempt's state, with the attempt's verifier on success,
\* whatever the listener or the timer settled authCodePromise with before,
\* and nothing that comes later changes the result.
C32_DirectSuccessParsesAtOnce ==
    [][\A a \in Attempts :
          /\ \A o \in BrowserOutcomes :
                (BrowserReturn(a, o) /\ o.type = "success" /\ o.url # NoEvent)
                => /\ pc'[a] = "done"
                   /\ returned'[a] =
                        WithVerifier(parseCallbackURL(o.url, session[a].state),
                                     session[a].codeVerifier)
          /\ pc[a] = "done" => returned'[a] = returned[a]]_vars

\* the listener had settled the pending result with a failure and the
\* session's own URL was reported as the success
C32_Witness ==
    \E a \in Attempts :
        /\ pc[a] = "done"
        /\ returned[a].success
        /\ returned[a].codeVerifier = session[a].codeVerifier
        /\ waiters[a]["browser"].promise # NoResult
        /\ ~waiters[a]["browser"].promise.success

\* the strategy a call is running
Running(a, strategy) ==
    IF strategy = "app"
    THEN pc[a] \in {"app_intent", "app_launch", "app_canopen", "app_openurl", "app_await"}
    ELSE pc[a] \in {"br_session", "br_await"}

\* C33: in both strategies, when the 5-minute timer of the strategy a call
\* is running fires before anything else settled the attempt, the call
\* returns the timeout failure in that step, also when its launch primitive
\* or its browser session has not returned yet.
C33_TimeoutBoundsAttempt ==
    [][\A a \in Attempts, s \in Strategies :
          (TimerFire(a, s) /\ Running(a, s) /\ waiters[a][s].promise = NoResult)
          => pc'[a] = "done" /\ returned'[a] = Failure(TimeoutMessage(s))]_vars

\* C34: if every invoked platform primitive returns or throws and every
\* armed timer fires, every call of authenticate() that was made ends with a
\* result, whatever path it takes and even if no deep link ever comes.
C34_Termination ==
    \A a \in 1..MaxAttempts :
        (a \in Attempts /\ pc[a] # "idle")
        ~> (a \in Attempts /\ pc[a] = "done" /\ Resolved(a))

\* a call that no deep link reached ended by its timeout
C34_Witness ==
    \E a \in Attempts :
        /\ pc[a] = "done"
        /\ \A s \in Strategies : waiters[a][s].ev = NoEvent
        /\ returned[a].error \in {MsgTimeoutApp, MsgTimeoutBrowser}

\* C35: every success with a code that authenticate() returns, from the
\* listener or from the browser session's URL and in either strategy,
\* carries a state, read from its callback, that is the state token
\* generated for that call, and the code verifier generated for that call.
C35_SuccessBoundToSession ==
    \A a \in Attempts :
        (entry[a] = "authenticateWithUAEPass" /\ pc[a] = "done"
            /\ SuccessWithCode(returned[a]))
        => /\ returned[a].state = session[a].state
           /\ returned[a].state \in StateTokens
           /\ returned[a].codeVerifier = session[a].codeVerifier
           /\ returned[a].codeVerifier \in Verifiers

\* a success with the call's own state and verifier
C35_Witness ==
    \E a \in Attempts :
        /\ entry[a] = "authenticateWithUAEPass" /\ pc[a] = "done"
        /\ SuccessWithCode(returned[a])
        /\ returned[a].state = session[a].state
        /\ returned[a].codeVerifier = session[a].codeVerifier

-----------------------------------------------------------------------------
(* Claims about the authorization URL (SpecApi) *)

\* the query keys of an authorization URL, in the order of the source
AuthorizationKeys ==
    <<"response_type", "client_id", "redirect_uri", "scope", "state",
      "acr_values", "ui_locales">>

\* the entry points that build the authorization URL themselves
BuildsAuthUrl(a) ==
    entry[a] \in {"authenticateWithUAEPass", "useUAEPassAuth.authenticate",
                  "prepareUAEPassAuth"}

-----------------------------------------------------------------------------
(* Claims about what the WebView bridge loads and reports (SpecBridge) *)

\* C36: whatever the WebView shows after the authorization URL is the
\* success URL or the failure URL the bridge saved in this rendering
\* session; no deep link makes it show another URL.
C36_OnlySavedUrlsResumed ==
    currentUrl # UrlText(bridgeProps.authUrl)
    => /\ savedUrls # NoSavedUrls
       /\ currentUrl \in {PlainText(savedUrls.successURL),
                          PlainText(savedUrls.failureURL)}

\* the onSuccess invocations among the props callbacks of this session
SuccessReports == SelectSeq(bridgeCallbacks, LAMBDA cb : cb.name = "onSuccess")

\* C38: within one rendering session the bridge invokes at most one of the
\* props callbacks onSuccess, onError and onCancel, and a callback URL seen
\* by several handlers (navigation interception, navigation-state change,
\* deep-link listener) invokes onSuccess at most once.
C38_SingleTerminalCallback ==
    /\ Len(bridgeCallbacks) <= 1
    /\ Len(SuccessReports) <= 1

-----------------------------------------------------------------------------
(* Claims about the hook's callbacks and state (SpecApi, SpecHooks) *)

C40_LoadingWhileInFlight ==
    (\E a \in Attempts :
        entry[a] = "useUAEPassAuth.authenticate" /\ pc[a] \notin {"idle", "done"})
    => isLoading

====
